---- MODULE Spec2Model ----
(***************************************************************************)
(* Turn orchestration of the role-playing session: the command grammar     *)
(* parser (GameMaster.validate_and_parse), command application             *)
(* (GameMaster.parse_commands), the correction loop                        *)
(* (GameMaster.generate_instruction), the turn (GameMaster.generate_answer *)
(* with the plain renderer Actor.get_detailed_action), the persistence     *)
(* streams of DatabaseManager and the replay done by the constructors.     *)
(***************************************************************************)
EXTENDS Integers, Sequences, FiniteSets, TLC

VARIABLES
    db,                 \* the session's rows in the DatabaseManager tables
    language,           \* sessions.language of the session
    constructed,        \* a live GameMaster (and its Actor) exists in the process
    messages,           \* GameMaster.messageGenerator.__messages
    characters,         \* GameMaster.characters: name -> description
    actor_messages,     \* Actor.__messageGenerator.__messages
    active_characters,  \* Actor.__active_characters, in dict order: <<name, description>>
    pc,                 \* position of the turn in flight
    message,            \* generate_answer's argument
    output,             \* generate_instruction's output, as input_text.splitlines()
    parsed,             \* generate_instruction's (parsed_data, error)
    cnt_errore,         \* generate_instruction's cnt_errore
    final_output,       \* parse_commands' final_output when it stopped
    active_names,       \* parse_commands' active_characters when it stopped
    final_message,      \* what Actor.get_detailed_action returned
    outcome,            \* how the last generate_answer ended
    gm_calls,           \* calls of GameMaster.messageGenerator.generate so far
    actor_calls,        \* calls of Actor.get_detailed_action so far
    start,              \* db, characters and the call counters when the turn began
    ended,              \* a PlayerDeath command has been applied in this session
    turns,              \* turn attempts so far
    entry,              \* the GameManager entry point of the request in flight
    reply,              \* what the entry point of the last request gave its caller
    retry_count,        \* DialogActor get_detailed_action's retry_count
    tagged_response,    \* DialogActor get_detailed_action's response
    invalid_names,      \* DialogActor get_detailed_action's invalid_names
    tagged_prompt,      \* DialogActor get_detailed_action's narration_prompt
    segmenter_messages, \* DialogueProcessor.message_generator.__messages
    source_text,        \* DialogueProcessor.process_text's text
    attempt,            \* process_text's attempt
    errors,             \* process_text's errors
    segmenter_response, \* process_text's response, as response.split("\n")
    segments,           \* process_text's segments
    segmenter_result,   \* what process_text returned
    tables,             \* the DatabaseManager tables, rows of every session
    instances           \* session id -> the GameManager serving that session

vars == <<db, language, constructed, messages, characters, actor_messages,
          active_characters, pc, message, output, parsed, cnt_errore,
          final_output, active_names, final_message, outcome, gm_calls,
          actor_calls, start, ended, turns, entry, reply, retry_count,
          tagged_response, invalid_names, tagged_prompt, segmenter_messages,
          source_text, attempt, errors, segmenter_response, segments,
          segmenter_result, tables, instances>>

\* The tables shared by the sessions and the GameManagers of the sessions.
sessions_state == <<tables, instances>>

\* The DialogueProcessor and the locals of its process_text.
segmenter_state ==
    <<segmenter_messages, source_text, attempt, errors, segmenter_response,
      segments, segmenter_result>>

\* The locals of the tagged renderer's get_detailed_action.
tagged_locals == <<retry_count, tagged_response, invalid_names, tagged_prompt>>

(***************************************************************************)
(* Bounds of the model.                                                    *)
(***************************************************************************)
MaxTurns == 2
MaxChunks == 3
MaxSessionTurns == 3

(***************************************************************************)
(* Python str: strip() and lower() on the characters the model uses.       *)
(***************************************************************************)
IsSpace(c) == c \in {" ", "\t"}

RECURSIVE lstrip(_)
lstrip(s) ==
    IF Len(s) > 0 /\ IsSpace(SubSeq(s, 1, 1)) THEN lstrip(SubSeq(s, 2, Len(s))) ELSE s

RECURSIVE rstrip(_)
rstrip(s) ==
    IF Len(s) > 0 /\ IsSpace(SubSeq(s, Len(s), Len(s)))
    THEN rstrip(SubSeq(s, 1, Len(s) - 1)) ELSE s

strip(s) == rstrip(lstrip(s))

UpperLetters == "ABCDEFGHIJKLMNOPQRSTUVWXYZ"
LowerLetters == "abcdefghijklmnopqrstuvwxyz"

lower_char(c) ==
    IF \E k \in 1..26 : SubSeq(UpperLetters, k, k) = c
    THEN LET k == CHOOSE k \in 1..26 : SubSeq(UpperLetters, k, k) = c
         IN SubSeq(LowerLetters, k, k)
    ELSE c

RECURSIVE lower(_)
lower(s) ==
    IF Len(s) = 0 THEN s
    ELSE lower_char(SubSeq(s, 1, 1)) \o lower(SubSeq(s, 2, Len(s)))

(***************************************************************************)
(* The lines a generator output is made of. Chunks are the line groups the *)
(* outputs are assembled from: well-formed commands in several spellings,  *)
(* an invalid gender, a blank line, a keyword with trailing text, and the  *)
(* truncated beginnings of commands.                                       *)
(***************************************************************************)
Chunks ==
    { <<"Create character command", "Ada", "male", "A smith.">>,
      <<"create character command.", " Bob ", "Female", "A smith.">>,
      <<"Create character command", "Ada", "robot", "A smith.">>,
      <<"Select character command", "Ada", "waves.">>,
      <<"SELECT CHARACTER COMMAND.", " Bob ", "waves.">>,
      <<"Describe environment command", "waves.">>,
      <<"Off-topic input command">>,
      <<"Player death command.">>,
      <<"  ">>,
      <<"Player death command now">>,
      <<"Create character command">>,
      <<"Create character command", "Ada">>,
      <<"Create character command", "Ada", "male">>,
      <<"Select character command">>,
      <<"Select character command", "Ada">>,
      <<"Describe environment command">> }

RawLine == UNION { { c[k] : k \in 1..Len(c) } : c \in Chunks }

Commands ==
    { "Create character command", "Select character command",
      "Describe environment command", "Off-topic input command",
      "Player death command" }

\* strip() and lower() of every string the parser meets, computed once.
StripTable == [l \in RawLine \cup {""} |-> strip(l)]
LowerTable ==
    [l \in { StripTable[r] : r \in DOMAIN StripTable }
           \cup Commands \cup { c \o "." : c \in Commands } |-> lower(l)]

Strip(l) == IF l \in DOMAIN StripTable THEN StripTable[l] ELSE strip(l)
Lower(l) == IF l \in DOMAIN LowerTable THEN LowerTable[l] ELSE lower(l)

(***************************************************************************)
(* CommandData and Python's Optional.                                      *)
(***************************************************************************)
None == [is_none |-> TRUE]
Some(v) == [is_none |-> FALSE, value |-> v]

CommandCreateCharacter(name, gender, description) ==
    [kind |-> "CommandCreateCharacter", name |-> name, gender |-> gender,
     description |-> description]
CommandSelectCharacter(name, action) ==
    [kind |-> "CommandSelectCharacter", name |-> name, action |-> action]
CommandDataEnvironmentDescription(description) ==
    [kind |-> "CommandDataEnvironmentDescription", description |-> description]
CommandOffTopic == [kind |-> "CommandOffTopic"]
CommandPlayerDeath == [kind |-> "CommandPlayerDeath"]

(***************************************************************************)
(* GameMaster.validate_and_parse. input_text is given as its splitlines(); *)
(* chars is self.characters. Indices are Python's (0-based).               *)
(***************************************************************************)
At(lines, i) == lines[i + 1]

\* cleaned_text.strip().split("\n"): the non-blank lines, the first without
\* its leading and the last without its trailing whitespace; [""] when
\* there is none.
CleanedLines(input_text) ==
    LET kept == SelectSeq(input_text, LAMBDA line : Strip(line) # "")
        n == Len(kept)
    IN IF n = 0 THEN <<"">>
       ELSE [k \in 1..n |->
               IF k = 1 /\ k = n THEN Strip(kept[k])
               ELSE IF k = 1 THEN lstrip(kept[k])
               ELSE IF k = n THEN rstrip(kept[k])
               ELSE kept[k]]

\* Mutant: the comparison keeps the case.
match_command_case_sensitive(line, command) ==
    \/ Strip(line) = command
    \/ Strip(line) = command \o "."

\* Mutant: the trailing period is required.
match_command_period_required(line, command) ==
    Lower(Strip(line)) = Lower(command \o ".")

match_command(line, command) ==
    \/ Lower(Strip(line)) = Lower(command)
    \/ Lower(Strip(line)) = Lower(command \o ".")

Result(parsed_data, error) == [parsed_data |-> parsed_data, error |-> error]

\* Mutant: the gender check is left out.
invalid_gender_unchecked(gender) == FALSE

\* if gender not in ['male', 'female']
invalid_gender(gender) == gender \notin {"male", "female"}

\* Mutant: the names created earlier in the same input are forgotten.
name_exists_session_only(name, chars, tmp_characters_names) ==
    name \in DOMAIN chars

\* if name in self.characters or name in tmp_characters_names
name_exists(name, chars, tmp_characters_names) ==
    name \in DOMAIN chars \/ name \in tmp_characters_names

\* Mutant: only a non-empty cast is consulted.
name_unknown_when_cast(name, chars, tmp_characters_names) ==
    /\ DOMAIN chars # {}
    /\ name \notin DOMAIN chars /\ name \notin tmp_characters_names

\* if name not in self.characters and name not in tmp_characters_names
name_unknown(name, chars, tmp_characters_names) ==
    name \notin DOMAIN chars /\ name \notin tmp_characters_names

\* Mutant: the last operand line is taken for missing.
incomplete_one_short(lines, i, operands) == i + operands + 1 >= Len(lines)

\* if i + 3 >= len(lines), and the same with 2 and 1
incomplete(lines, i, operands) == i + operands >= Len(lines)

RECURSIVE scan(_, _, _, _, _)
scan(lines, i, parsed_data, tmp_characters_names, chars) ==
    IF ~(i < Len(lines))
    THEN IF Len(parsed_data) = 0
         THEN Result(None, "Error: No commands found.")
         ELSE Result(Some(parsed_data), "No errors found.")
    ELSE
    LET line == Strip(At(lines, i)) IN
    IF match_command(line, "Create character command") THEN
        IF incomplete(lines, i, 3)
        THEN Result(None, "Error: Incomplete 'Create a character command.'")
        ELSE
        LET name == Strip(At(lines, i + 1))
            gender == Lower(Strip(At(lines, i + 2)))
            description == Strip(At(lines, i + 3))
        IN IF invalid_gender(gender)
           THEN Result(None, "Error: Invalid gender '" \o gender
                              \o "'. Must be 'male' or 'female'.")
           ELSE IF name_exists(name, chars, tmp_characters_names)
           THEN Result(None, "Error: Character name '" \o name
                              \o "' already exists.")
           ELSE scan(lines, i + 4,
                     Append(parsed_data,
                            CommandCreateCharacter(name, gender, description)),
                     tmp_characters_names \cup {name}, chars)
    ELSE IF match_command(line, "Select character command") THEN
        IF incomplete(lines, i, 2)
        THEN Result(None, "Error: Incomplete 'Select character command.'")
        ELSE
        LET name == Strip(At(lines, i + 1))
            action == Strip(At(lines, i + 2))
        IN IF name_unknown(name, chars, tmp_characters_names)
           THEN Result(None, "Error: Character name '" \o name
                              \o "' does not exist.")
           ELSE scan(lines, i + 3,
                     Append(parsed_data, CommandSelectCharacter(name, action)),
                     tmp_characters_names, chars)
    ELSE IF match_command(line, "Describe environment command") THEN
        IF incomplete(lines, i, 1)
        THEN Result(None,
                    "Error: Incomplete 'The command to describe the environment.'")
        ELSE scan(lines, i + 2,
                  Append(parsed_data,
                         CommandDataEnvironmentDescription(Strip(At(lines, i + 1)))),
                  tmp_characters_names, chars)
    ELSE IF match_command(line, "Off-topic input command") THEN
        scan(lines, i + 1, Append(parsed_data, CommandOffTopic),
             tmp_characters_names, chars)
    ELSE IF match_command(line, "Player death command") THEN
        scan(lines, i + 1, Append(parsed_data, CommandPlayerDeath),
             tmp_characters_names, chars)
    ELSE Result(None, "Error: Unrecognized command '" \o line \o "'")

validate_and_parse(input_text, chars) ==
    scan(CleanedLines(input_text), 0, <<>>, {}, chars)

(***************************************************************************)
(* DatabaseManager: the tables of one session, each in insertion order.    *)
(***************************************************************************)
EmptyDb ==
    [characters |-> <<>>, user_messages |-> <<>>, master_messages |-> <<>>,
     actor_messages |-> <<>>, game_master_prompts |-> <<>>,
     actor_prompts |-> <<>>, active_characters |-> {}, image_prompts |-> <<>>,
     dialogue_prompts |-> <<>>]

\* The tables of the database before any session is created.
EmptyTables ==
    [sessions |-> <<>>, characters |-> <<>>, user_messages |-> <<>>,
     master_messages |-> <<>>, actor_messages |-> <<>>,
     game_master_prompts |-> <<>>, actor_prompts |-> <<>>,
     active_characters |-> {}, image_prompts |-> <<>>]

\* SELECT COALESCE(MAX(sequence_number), 0)
MaxSequenceNumber(rows) ==
    IF rows = <<>> THEN 0
    ELSE LET s == { rows[k].sequence_number : k \in 1..Len(rows) }
         IN CHOOSE m \in s : \A x \in s : x <= m

\* Mutant: the increment is left out.
next_seq_not_incremented(rows) == MaxSequenceNumber(rows)

\* next_seq = cursor.fetchone()[0] + 1
next_seq(rows) == MaxSequenceNumber(rows) + 1

\* Mutant: the character is entered in the map only.
save_character_skipped(d, name, description, gender) == d

\* INSERT OR REPLACE INTO characters: the table has no unique key but the
\* autoincremented character_id, so every call inserts a row.
save_character(d, name, description, gender) ==
    [d EXCEPT !.characters =
        Append(@, [character_id |-> Len(@) + 1, name |-> name,
                   description |-> description, gender |-> gender])]

save_user_message(d, user_input, response) ==
    [d EXCEPT !.user_messages =
        Append(@, [sequence_number |-> next_seq(@), user_input |-> user_input,
                   response |-> response])]

save_master_message(d, user_input, master_output, actor_output) ==
    [d EXCEPT !.master_messages =
        Append(@, [sequence_number |-> next_seq(@), user_input |-> user_input,
                   master_output |-> master_output,
                   actor_output |-> actor_output])]

\* Mutant: the renderer's record is not written.
save_actor_message_skipped(d, master_prompt, actor_response) == d

save_actor_message(d, master_prompt, actor_response) ==
    [d EXCEPT !.actor_messages =
        Append(@, [sequence_number |-> next_seq(@),
                   master_prompt |-> master_prompt,
                   actor_response |-> actor_response])]

save_game_master_prompt(d, prompt_type, prompt_content, model_response) ==
    [d EXCEPT !.game_master_prompts =
        Append(@, [prompt_type |-> prompt_type,
                   prompt_content |-> prompt_content,
                   model_response |-> model_response])]

save_actor_prompt(d, prompt_content, model_response) ==
    [d EXCEPT !.actor_prompts =
        Append(@, [prompt_content |-> prompt_content,
                   model_response |-> model_response])]

save_image_prompt(d, user_input, narrative_response, image_prompt) ==
    [d EXCEPT !.image_prompts =
        Append(@, [sequence_number |-> next_seq(@), user_input |-> user_input,
                   narrative_response |-> narrative_response,
                   image_prompt |-> image_prompt])]

\* Mutant: the attempt is not recorded.
save_dialogue_prompt_skipped(d, sequence_number, prompt_content, model_response) == d

save_dialogue_prompt(d, sequence_number, prompt_content, model_response) ==
    [d EXCEPT !.dialogue_prompts =
        Append(@, [sequence_number |-> sequence_number,
                   prompt_content |-> prompt_content,
                   model_response |-> model_response])]

\* DELETE the rows of the sequence number, then INSERT one row per id.
save_active_characters(d, sequence_number, character_ids) ==
    [d EXCEPT !.active_characters =
        { r \in @ : r.sequence_number # sequence_number }
        \cup { [sequence_number |-> sequence_number, character_id |-> id]
               : id \in character_ids }]

\* SELECT character_id ... WHERE name = ?, fetchone(): the first such row.
get_character_id(d, name) ==
    LET hits == { k \in 1..Len(d.characters) : d.characters[k].name = name }
    IN IF hits = {} THEN None
       ELSE Some(d.characters[CHOOSE k \in hits : \A j \in hits : k <= j].character_id)

\* SELECT character_id FROM active_characters WHERE sequence_number = ?
get_active_characters_ids(d, sequence_number) ==
    { r.character_id :
        r \in { x \in d.active_characters : x.sequence_number = sequence_number } }

(***************************************************************************)
(* GameMaster.parse_commands, from command number k (1-based) on. st holds *)
(* self.characters, the database, final_output, active_characters and      *)
(* whether PlayerDeathException was raised.                                *)
(***************************************************************************)
\* Mutant: "+=" in place of "=".
apply_off_topic_appending(st) ==
    [st EXCEPT !.final_output = @ \o "Input is off-topic"]

\* final_output = "Input is off-topic"
apply_off_topic(st) == [st EXCEPT !.final_output = "Input is off-topic"]

\* Mutant: the line of a selected character is not ended.
select_line_not_ended(command) == command.name \o ": " \o command.action

\* f"{command.name}: {command.action}\n"
select_line(command) == command.name \o ": " \o command.action \o "\n"

\* One iteration of "for command in commands".
apply_command(command, st) ==
    IF command.kind = "CommandCreateCharacter" THEN
        [st EXCEPT
           !.characters =
               [n \in DOMAIN @ \cup {command.name} |->
                   IF n = command.name THEN command.description ELSE @[n]],
           !.db = save_character(@, command.name, command.description,
                                 command.gender),
           !.final_output = @ \o "A new character appears: " \o command.name
                              \o ". " \o command.description \o "\n",
           !.active_characters = @ \cup {command.name}]
    ELSE IF command.kind = "CommandSelectCharacter" THEN
        [st EXCEPT
           !.final_output = @ \o select_line(command),
           !.active_characters = @ \cup {command.name}]
    ELSE IF command.kind = "CommandDataEnvironmentDescription" THEN
        [st EXCEPT
           !.final_output = @ \o "Environment: " \o command.description \o "\n"]
    ELSE IF command.kind = "CommandOffTopic" THEN
        apply_off_topic(st)
    ELSE IF command.kind = "CommandPlayerDeath" THEN
        [st EXCEPT
           !.final_output = @ \o "The player character has died. The session has ended.",
           !.raised = TRUE]
    ELSE st

\* Mutant: the loop goes on after OffTopic.
ends_batch_death_only(command) == command.kind = "CommandPlayerDeath"

\* Mutant: the loop goes on after PlayerDeath.
ends_batch_off_topic_only(command) == command.kind = "CommandOffTopic"

\* "break" after OffTopic, "raise" after PlayerDeath.
ends_batch(command) ==
    command.kind \in {"CommandOffTopic", "CommandPlayerDeath"}

RECURSIVE apply_commands(_, _, _)
apply_commands(commands, k, st) ==
    IF k > Len(commands) THEN st
    ELSE LET applied == apply_command(commands[k], st)
         IN IF ends_batch(commands[k]) THEN applied
            ELSE apply_commands(commands, k + 1, applied)

parse_commands(commands, chars, d) ==
    apply_commands(commands, 1,
        [characters |-> chars, db |-> d, final_output |-> "",
         active_characters |-> {}, raised |-> FALSE])

(***************************************************************************)
(* The message generators (MessageGeneratorOpenRouter): a context is the   *)
(* list __messages of role-tagged messages.                                *)
(***************************************************************************)
Msg(role, content) == [role |-> role, content |-> content]
add_user_message(ms, message_content) == Append(ms, Msg("user", message_content))
add_ai_message(ms, message_content) == Append(ms, Msg("assistant", message_content))
add_system_message(ms, message_content) == Append(ms, Msg("system", message_content))

\* generate(input_message) when the service answers out.
generate(ms, input_message, out) ==
    add_ai_message(add_user_message(ms, input_message), out)

RECURSIVE Flatten(_)
Flatten(ss) == IF ss = <<>> THEN <<>> ELSE Head(ss) \o Flatten(Tail(ss))

RECURSIVE Join(_, _)
Join(sep, ss) ==
    IF ss = <<>> THEN ""
    ELSE IF Len(ss) = 1 THEN ss[1]
    ELSE ss[1] \o sep \o Join(sep, Tail(ss))

(***************************************************************************)
(* Prompt texts. The long fixed texts are cut to their first words.        *)
(***************************************************************************)
world_description == "A walled town."
player_description == "A traveller."
gm_start_message == "You are a Game Master for a tabletop role-playing game."
world_description_start == "Below is the world description for our game."
character_name_start == "Here is the player character's name and description."
correct_formatting == "Respond using ONLY these commands."
actor_start_message == "You are a narrator."
rules == "You also need to follow these rules."
off_topic_message_eng == "Input is off-topic"
off_topic_message_ru == "Vvod ne po teme"

\* Mutant: the English sentence whatever the language.
off_topic_response_english_only(lang) == off_topic_message_eng

\* The renderer's answer to the off-topic summary.
off_topic_response(lang) ==
    IF lang = "Russian" THEN off_topic_message_ru ELSE off_topic_message_eng

world_prompt == world_description_start \o "\n" \o world_description
formatted_character ==
    character_name_start \o "\nDescription: " \o player_description
formatted_start_message(lang) ==
    actor_start_message \o "\nStory world context: " \o world_description
    \o "\nImportant: All your responses must be in " \o lang \o " language."

correction_message(error) ==
    "Incorrect formatting. Error: " \o error \o ". Repeat using the correct.\n"
    \o correct_formatting

\* The generator's output as one text, as it is stored in the context.
OutputText(lines) == Join("\n", lines)

characters_info(active) ==
    Join("\n", [k \in 1..Len(active) |-> active[k][1] \o ": " \o active[k][2]])

narration_prompt(active, user_input, game_master_output) ==
    "Current scene characters:\n" \o characters_info(active)
    \o "\nUser's input: \"" \o user_input
    \o "\"\nGame Master's output: " \o game_master_output
    \o "\nTransform this into a concise narrative."

actor_message_of(text) ==
    "Actor's output (What the user will see):\n" \o text

(***************************************************************************)
(* Actor.__init__ and GameMaster.__init__ for an existing session. Rows    *)
(* ordered by created_at are taken in insertion order.                     *)
(***************************************************************************)
Actor_init(d, lang) ==
    LET is_new_session == d.actor_prompts = <<>>
        response == "Ready to narrate concisely"
        primed ==
            IF is_new_session
            THEN add_ai_message(
                     add_system_message(<<>>, formatted_start_message(lang)),
                     response)
            ELSE Flatten([k \in 1..Len(d.actor_prompts) |->
                     << Msg("system", d.actor_prompts[k].prompt_content),
                        Msg("assistant", d.actor_prompts[k].model_response) >>])
        d1 == IF is_new_session
              THEN save_actor_prompt(d, formatted_start_message(lang), response)
              ELSE d
        actor_history ==
            Flatten([k \in 1..Len(d1.actor_messages) |->
                     << Msg("user", d1.actor_messages[k].master_prompt),
                        Msg("assistant", d1.actor_messages[k].actor_response) >>])
    IN [db |-> d1, messages |-> primed \o actor_history]

\* Mutant: every construction takes the session for a new one.
is_new_session_always(d) == TRUE

\* not EXISTS (SELECT 1 FROM game_master_prompts WHERE session_id = ?)
is_new_session_gm_prompt(d) == d.game_master_prompts = <<>>

GameMaster_bootstrap ==
    << Msg("system", gm_start_message), Msg("assistant", "Understood"),
       Msg("user", world_prompt), Msg("system", "Understood"),
       Msg("user", formatted_character), Msg("system", "Understood") >>

GameMaster_load_prompts(d) ==
    Flatten([k \in 1..Len(d.game_master_prompts) |->
             << Msg("system", d.game_master_prompts[k].prompt_content),
                Msg("assistant", d.game_master_prompts[k].model_response) >>])

GameMaster_load_history(d) ==
    Flatten([k \in 1..Len(d.master_messages) |->
             << Msg("user", d.master_messages[k].user_input),
                Msg("assistant", d.master_messages[k].master_output),
                Msg("system", d.master_messages[k].actor_output) >>])

\* Mutant: the session's characters are not loaded.
GameMaster_load_characters_skipped(d) == <<>>

\* for name, description, gender in get_characters(): characters[name] = description
GameMaster_load_characters(d) ==
    LET rows == d.characters
        names == { rows[k].name : k \in 1..Len(rows) }
        last(n) == CHOOSE k \in 1..Len(rows) :
                      /\ rows[k].name = n
                      /\ \A j \in 1..Len(rows) : rows[j].name = n => j <= k
    IN [n \in names |-> rows[last(n)].description]

GameMaster_init(d, lang) ==
    LET actor == Actor_init(d, lang)
        d1 == actor.db
        is_new_session == is_new_session_gm_prompt(d1)
        d2 == IF is_new_session
              THEN save_game_master_prompt(
                     save_game_master_prompt(
                       save_game_master_prompt(d1, "start", gm_start_message,
                                               "Understood"),
                       "world", world_prompt, "Understood"),
                     "character", formatted_character, "Understood")
              ELSE d1
        primed == IF is_new_session THEN GameMaster_bootstrap
                  ELSE GameMaster_load_prompts(d1)
    IN [db |-> d2,
        messages |-> primed \o GameMaster_load_history(d2),
        characters |-> GameMaster_load_characters(d2),
        actor_messages |-> actor.messages]

(***************************************************************************)
(* Inputs of the model.                                                    *)
(***************************************************************************)
UserInputs == {"look"}
ActorResponses == {"The smith waves."}
Languages == {"Russian", "English"}

\* What the game master's generator may answer in a turn.
GenOutputs ==
    { <<"Create character command", "Ada", "male", "A smith.">>,
      <<"Select character command", "Ada", "waves.">>,
      <<"Off-topic input command">>,
      <<"create character command.", " Bob ", "Female", "A smith.",
        "Player death command.">> }

\* The orders in which a Python set of names may be iterated.
Orders(S) ==
    { s \in [1..Cardinality(S) -> S] :
        \A i, j \in 1..Cardinality(S) : i # j => s[i] # s[j] }

\* GameManager's entry points and what their caller gets: a returned
\* (text, image, audio) response, of which the text is kept, or an exception.
EntryPoints == {"process_input", "process_audio_input"}
NoReply == [kind |-> "none"]
Returned(text) == [kind |-> "returned", text |-> text]
Raised(exception) == [kind |-> "raised", exception |-> exception]

\* An exception leaves generate_answer: process_input has no handler around
\* the call; process_audio_input catches Exception around its call of
\* process_input and returns an error text ("an error occurred while
\* processing the audio: " and the exception's text).
entry_point_on_exception(e, exception) ==
    IF e = "process_audio_input"
    THEN Returned("Error while processing audio: " \o exception)
    ELSE Raised(exception)

Snapshot ==
    [db |-> db, characters |-> characters, gm_calls |-> gm_calls,
     actor_calls |-> actor_calls]

(***************************************************************************)
(* Initial state: the session exists, nothing is persisted for it yet and  *)
(* no GameMaster has been constructed.                                     *)
(***************************************************************************)
Init ==
    /\ db = EmptyDb
    /\ language \in Languages
    /\ constructed = FALSE
    /\ messages = <<>>
    /\ characters = <<>>
    /\ actor_messages = <<>>
    /\ active_characters = <<>>
    /\ pc = "AwaitingInput"
    /\ message = ""
    /\ output = <<>>
    /\ parsed = Result(None, "")
    /\ cnt_errore = 0
    /\ final_output = ""
    /\ active_names = {}
    /\ final_message = ""
    /\ outcome = "none"
    /\ gm_calls = 0
    /\ actor_calls = 0
    /\ start = [db |-> EmptyDb, characters |-> <<>>, gm_calls |-> 0,
                actor_calls |-> 0]
    /\ ended = FALSE
    /\ turns = 0
    /\ entry = "none"
    /\ reply = NoReply
    /\ retry_count = 0
    /\ tagged_response = ""
    /\ invalid_names = <<>>
    /\ tagged_prompt = ""
    /\ segmenter_messages = <<>>
    /\ source_text = ""
    /\ attempt = 0
    /\ errors = None
    /\ segmenter_response = <<>>
    /\ segments = <<>>
    /\ segmenter_result = <<>>
    /\ tables = EmptyTables
    /\ instances = <<>>

(***************************************************************************)
(* GameManager.__init__ / GameMaster.__init__: a (new) process builds its  *)
(* GameMaster and Actor for the session from the database.                 *)
(***************************************************************************)
Construct ==
    /\ pc = "AwaitingInput"
    /\ UNCHANGED <<tagged_locals, segmenter_state, sessions_state>>
    /\ LET g == GameMaster_init(db, language) IN
        /\ db' = g.db
        /\ messages' = g.messages
        /\ characters' = g.characters
        /\ actor_messages' = g.actor_messages
        /\ start' = [db |-> g.db, characters |-> g.characters,
                     gm_calls |-> gm_calls, actor_calls |-> actor_calls]
    /\ constructed' = TRUE
    /\ active_characters' = <<>>
    \* the locals of the old process's last call are gone
    /\ message' = ""
    /\ output' = <<>>
    /\ parsed' = Result(None, "")
    /\ cnt_errore' = 0
    /\ final_output' = ""
    /\ active_names' = {}
    /\ final_message' = ""
    /\ outcome' = "none"
    /\ entry' = "none"
    /\ reply' = NoReply
    /\ UNCHANGED <<language, pc, gm_calls, actor_calls, ended, turns>>

(***************************************************************************)
(* GameManager.process_input -> GameMaster.generate_answer ->              *)
(* generate_instruction: the first generation call.                        *)
(***************************************************************************)
BeginTurn ==
    /\ pc = "AwaitingInput"
    /\ UNCHANGED <<tagged_locals, segmenter_state, sessions_state>>
    /\ constructed
    /\ turns < MaxTurns
    /\ \E m \in UserInputs, o \in GenOutputs :
        /\ message' = m
        /\ messages' = generate(messages, m \o "\n" \o rules, OutputText(o))
        /\ output' = o
    /\ entry' \in EntryPoints
    /\ reply' = NoReply
    /\ gm_calls' = gm_calls + 1
    /\ cnt_errore' = 0
    /\ parsed' = Result(None, "")
    /\ final_output' = ""
    /\ active_names' = {}
    /\ final_message' = ""
    /\ start' = Snapshot
    /\ turns' = turns + 1
    /\ outcome' = "none"
    /\ pc' = "ValidatingFormat"
    /\ UNCHANGED <<db, language, constructed, characters, actor_messages,
                   active_characters, actor_calls, ended>>

\* Mutant: the names of the accepted create commands are entered in the map
\* by the validation already.
Validate_registering ==
    /\ pc = "ValidatingFormat"
    /\ UNCHANGED <<tagged_locals, segmenter_state, sessions_state>>
    /\ parsed' = validate_and_parse(output, characters)
    /\ pc' = IF parsed'.parsed_data = None THEN "CorrectingFormat"
             ELSE "ApplyingCommands"
    /\ characters' =
         IF parsed'.parsed_data = None THEN characters
         ELSE LET cs == parsed'.parsed_data.value
                  created == { k \in 1..Len(cs) : cs[k].kind = "CommandCreateCharacter" }
              IN [n \in { cs[k].name : k \in created } |-> ""] @@ characters
    /\ UNCHANGED <<db, language, constructed, messages,
                   actor_messages, active_characters, message, output,
                   cnt_errore, final_output, active_names, final_message,
                   outcome, gm_calls, actor_calls, start, ended, turns,
                   entry, reply>>

\* parsed_data, error = self.validate_and_parse(output)
Validate ==
    /\ pc = "ValidatingFormat"
    /\ UNCHANGED <<tagged_locals, segmenter_state, sessions_state>>
    /\ parsed' = validate_and_parse(output, characters)
    /\ pc' = IF parsed'.parsed_data = None THEN "CorrectingFormat"
             ELSE "ApplyingCommands"
    /\ UNCHANGED <<db, language, constructed, messages, characters,
                   actor_messages, active_characters, message, output,
                   cnt_errore, final_output, active_names, final_message,
                   outcome, gm_calls, actor_calls, start, ended, turns,
                   entry, reply>>

\* Mutant: one more correction is allowed.
too_many_errors_late(cnt) == cnt > 4

\* Mutant: the cap is reached one failure early.
too_many_errors_early(cnt) == cnt >= 3

\* if cnt_errore > 3
too_many_errors(cnt) == cnt > 3

\* One round of "while parsed_data is None": count, give up or re-prompt.
CorrectFormat ==
    /\ pc = "CorrectingFormat"
    /\ UNCHANGED <<tagged_locals, segmenter_state, sessions_state>>
    /\ cnt_errore' = cnt_errore + 1
    /\ IF too_many_errors(cnt_errore')
       THEN /\ outcome' = "RuntimeError"
            /\ pc' = "AwaitingInput"
            /\ reply' = entry_point_on_exception(entry, "RuntimeError")
            /\ entry' = "none"
            /\ UNCHANGED <<messages, output, gm_calls>>
       ELSE /\ \E o \in GenOutputs :
                /\ messages' = generate(messages, correction_message(parsed.error),
                                        OutputText(o))
                /\ output' = o
            /\ gm_calls' = gm_calls + 1
            /\ pc' = "ValidatingFormat"
            /\ UNCHANGED <<outcome, entry, reply>>
    /\ UNCHANGED <<db, language, constructed, characters, actor_messages,
                   active_characters, message, parsed, final_output,
                   active_names, final_message, actor_calls, start, ended,
                   turns>>

\* game_master_output, active_character_names = self.parse_commands(commands)
ApplyCommands ==
    /\ pc = "ApplyingCommands"
    /\ UNCHANGED <<tagged_locals, segmenter_state, sessions_state>>
    /\ LET r == parse_commands(parsed.parsed_data.value, characters, db) IN
        /\ characters' = r.characters
        /\ db' = r.db
        /\ final_output' = r.final_output
        /\ active_names' = r.active_characters
        /\ IF r.raised
           THEN /\ outcome' = "PlayerDeathException"
                /\ ended' = TRUE
                /\ pc' = "AwaitingInput"
                /\ reply' = entry_point_on_exception(entry, "PlayerDeathException")
                /\ entry' = "none"
           ELSE /\ pc' = "Rendering"
                /\ UNCHANGED <<outcome, ended, entry, reply>>
    /\ UNCHANGED <<language, constructed, messages, actor_messages,
                   active_characters, message, output, parsed, cnt_errore,
                   final_message, gm_calls, actor_calls, start, turns>>

\* update_active_characters, then Actor.get_detailed_action
Render ==
    /\ pc = "Rendering"
    /\ UNCHANGED <<tagged_locals, segmenter_state, sessions_state>>
    /\ \E order \in Orders(active_names) :
        LET active == [k \in 1..Len(order) |-> <<order[k], characters[order[k]]>>]
        IN
        /\ active_characters' = active
        /\ IF final_output = off_topic_message_eng
           THEN LET response == off_topic_response(language)
                IN /\ db' = save_actor_message(db, final_output, response)
                   /\ final_message' = response
                   /\ UNCHANGED actor_messages
                   /\ pc' = "Persisting"
                   /\ UNCHANGED <<outcome, entry, reply>>
           ELSE \/ \E response \in ActorResponses :
                   /\ actor_messages' =
                        generate(actor_messages,
                                 narration_prompt(active, message, final_output),
                                 response)
                   /\ db' = save_actor_message(db, final_output, response)
                   /\ final_message' = response
                   /\ pc' = "Persisting"
                   /\ UNCHANGED <<outcome, entry, reply>>
                \* the service call inside generate raises
                \/ /\ actor_messages' =
                        add_user_message(actor_messages,
                            narration_prompt(active, message, final_output))
                   /\ outcome' = "GenerationError"
                   /\ pc' = "AwaitingInput"
                   /\ reply' = entry_point_on_exception(entry, "GenerationError")
                   /\ entry' = "none"
                   /\ UNCHANGED <<db, final_message>>
    /\ actor_calls' = actor_calls + 1
    /\ UNCHANGED <<language, constructed, messages, characters, message,
                   output, parsed, cnt_errore, final_output, active_names,
                   gm_calls, start, ended, turns>>

\* generate_answer after the renderer returned: the system note, the turn
\* records, the active-character ids under len(image_prompts).
Persist ==
    /\ pc = "Persisting"
    /\ UNCHANGED <<tagged_locals, segmenter_state, sessions_state>>
    /\ LET actor_message == actor_message_of(final_message)
           d1 == save_user_message(db, message, final_message)
           d2 == save_master_message(d1, message, OutputText(output),
                                     actor_message)
           ids == { get_character_id(d2, active_characters[k][1])
                    : k \in 1..Len(active_characters) }
           character_ids == { id.value : id \in { x \in ids : x # None } }
           sequence_number == Len(d2.image_prompts)
       IN /\ messages' = add_system_message(messages, actor_message)
          /\ db' = save_active_characters(d2, sequence_number, character_ids)
    /\ outcome' = "returned"
    /\ pc' = "Returned"
    /\ UNCHANGED <<language, constructed, characters, actor_messages,
                   active_characters, message, output, parsed, cnt_errore,
                   final_output, active_names, final_message, gm_calls,
                   actor_calls, start, ended, turns, entry, reply>>

\* GameManager.process_input after generate_answer returned: the scene
\* image, whose prompt is persisted unless image generation is off or the
\* prompt generator failed.
FinishInput ==
    /\ pc = "Returned"
    /\ UNCHANGED <<tagged_locals, segmenter_state, sessions_state>>
    /\ \E saved \in BOOLEAN :
        db' = IF saved
              THEN save_image_prompt(db, message, final_message, "image prompt")
              ELSE db
    /\ reply' = Returned(final_message)
    /\ entry' = "none"
    /\ pc' = "AwaitingInput"
    /\ UNCHANGED <<language, constructed, messages, characters, actor_messages,
                   active_characters, message, output, parsed, cnt_errore,
                   final_output, active_names, final_message, outcome,
                   gm_calls, actor_calls, start, ended, turns>>

\* GameManager.process_audio_input when the recording gives no text: the
\* recognizer returns nothing (or its "speech not recognized" text) and
\* the apology is returned, or the recognizer raises and the error text
\* is returned; generate_answer is not called.
AudioNotRecognized ==
    /\ pc = "AwaitingInput"
    /\ UNCHANGED <<tagged_locals, segmenter_state, sessions_state>>
    /\ constructed
    /\ turns < MaxTurns
    /\ reply' \in { Returned("Sorry, the speech was not recognized."),
                    entry_point_on_exception("process_audio_input", "STTError") }
    /\ reply' # reply
    /\ outcome' = "none"
    /\ entry' = "none"
    /\ UNCHANGED <<db, language, constructed, messages, characters,
                   actor_messages, active_characters, pc, message, output,
                   parsed, cnt_errore, final_output, active_names,
                   final_message, gm_calls, actor_calls, start, ended, turns>>

Next ==
    \/ Construct
    \/ BeginTurn
    \/ AudioNotRecognized
    \/ Validate
    \/ CorrectFormat
    \/ ApplyCommands
    \/ Render
    \/ Persist
    \/ FinishInput

Spec == Init /\ [][Next]_vars

\* The turns when every service call returns: a call that has started runs
\* on, statement after statement, so each step of a turn in progress is
\* eventually taken.
SpecFair ==
    /\ Init /\ [][Next]_vars
    /\ WF_vars(Validate) /\ WF_vars(CorrectFormat) /\ WF_vars(ApplyCommands)
    /\ WF_vars(Render) /\ WF_vars(Persist) /\ WF_vars(FinishInput)

(***************************************************************************)
(* The parser and the command application on their own: a GameMaster with  *)
(* any cast over the names has just received any output assembled from at  *)
(* most MaxChunks chunks.                                                   *)
(***************************************************************************)
RECURSIVE ChunkSeqs(_)
ChunkSeqs(n) ==
    IF n = 0 THEN { <<>> }
    ELSE LET shorter == ChunkSeqs(n - 1)
         IN shorter \cup { p \o c : p \in shorter, c \in Chunks }

Casts == { <<>>, <<"Ada">>, <<"Bob">>, <<"Ada", "Bob">> }

RECURSIVE DbWithCast(_)
DbWithCast(cast) ==
    IF cast = <<>> THEN EmptyDb
    ELSE save_character(DbWithCast(SubSeq(cast, 1, Len(cast) - 1)),
                        cast[Len(cast)], "A smith.", "male")

InitParse ==
    /\ language = "English"
    /\ \E cast \in Casts, o \in ChunkSeqs(MaxChunks) :
        LET g == GameMaster_init(DbWithCast(cast), language) IN
        /\ db = g.db
        /\ characters = g.characters
        /\ actor_messages = g.actor_messages
        /\ messages = generate(g.messages, "look" \o "\n" \o rules, OutputText(o))
        /\ output = o
        /\ start = [db |-> g.db, characters |-> g.characters, gm_calls |-> 0,
                    actor_calls |-> 0]
    /\ constructed = TRUE
    /\ active_characters = <<>>
    /\ pc = "ValidatingFormat"
    /\ message = "look"
    /\ parsed = Result(None, "")
    /\ cnt_errore = 0
    /\ final_output = ""
    /\ active_names = {}
    /\ final_message = ""
    /\ outcome = "none"
    /\ gm_calls = 1
    /\ actor_calls = 0
    /\ ended = FALSE
    /\ turns = 1
    /\ entry = "process_input"
    /\ reply = NoReply
    /\ retry_count = 0
    /\ tagged_response = ""
    /\ invalid_names = <<>>
    /\ tagged_prompt = ""
    /\ segmenter_messages = <<>>
    /\ source_text = ""
    /\ attempt = 0
    /\ errors = None
    /\ segmenter_response = <<>>
    /\ segments = <<>>
    /\ segmenter_result = <<>>
    /\ tables = EmptyTables
    /\ instances = <<>>

NextParse ==
    \/ Validate
    \/ ApplyCommands

SpecParse == InitParse /\ [][NextParse]_vars

(***************************************************************************)
(* Python str on the tagged renderer's texts: positions are 0-based,       *)
(* slice(text, a, b) is text[a:b].                                         *)
(***************************************************************************)
char_at(text, i) == SubSeq(text, i + 1, i + 1)
slice(text, a, b) == SubSeq(text, a + 1, b)

\* text.find(c, i): the first position >= i holding c, or -1.
RECURSIVE find(_, _, _)
find(text, c, i) ==
    IF i >= Len(text) THEN -1
    ELSE IF char_at(text, i) = c THEN i
    ELSE find(text, c, i + 1)

\* s.strip('[]')
RECURSIVE strip_brackets(_)
strip_brackets(s) ==
    IF Len(s) > 0 /\ char_at(s, 0) \in {"[", "]"}
    THEN strip_brackets(slice(s, 1, Len(s)))
    ELSE IF Len(s) > 0 /\ char_at(s, Len(s) - 1) \in {"[", "]"}
    THEN strip_brackets(slice(s, 0, Len(s) - 1))
    ELSE s

\* s in text
contains(text, s) ==
    \E i \in 0..(Len(text) - Len(s)) : slice(text, i, i + Len(s)) = s

\* ', '.join(names)
join_names(names) == Join(", ", names)

(***************************************************************************)
(* DialogActor.Actor.parse_text_to_speech: the list of <<speaker, text>>.  *)
(***************************************************************************)
RECURSIVE parse_text_to_speech_from(_, _, _)
parse_text_to_speech_from(text, current_pos, result) ==
    IF ~(current_pos < Len(text)) THEN result
    ELSE
    LET open_brace == find(text, "{", current_pos) IN
    IF open_brace # -1 THEN
        LET gm_text == strip(slice(text, current_pos, open_brace))
            result1 == IF open_brace > current_pos /\ gm_text # ""
                       THEN Append(result, <<"GM", gm_text>>) ELSE result
            close_brace == find(text, "}", open_brace)
        IN IF close_brace = -1
           THEN LET remaining == strip(slice(text, open_brace, Len(text)))
                IN IF remaining # "" THEN Append(result1, <<"GM", remaining>>)
                   ELSE result1
           ELSE
           LET content == strip(slice(text, open_brace + 1, close_brace))
               semicolon == find(content, ";", 0)
               result2 ==
                   IF semicolon # -1
                   THEN Append(result1,
                          << strip_brackets(strip(slice(content, 0, semicolon))),
                             strip(slice(content, semicolon + 1, Len(content))) >>)
                   ELSE result1
           IN parse_text_to_speech_from(text, close_brace + 1, result2)
    ELSE LET remaining == strip(slice(text, current_pos, Len(text)))
         IN IF remaining # "" THEN Append(result, <<"GM", remaining>>)
            ELSE result

parse_text_to_speech(text) == parse_text_to_speech_from(text, 0, <<>>)

(***************************************************************************)
(* DialogActor.Actor.validate_character_speech: re.findall of the pattern  *)
(* {\s*\[([^\]]+)\]; and the names found that are not in the roster.       *)
(***************************************************************************)
RECURSIVE skip_spaces(_, _)
skip_spaces(text, i) ==
    IF i < Len(text) /\ IsSpace(char_at(text, i)) THEN skip_spaces(text, i + 1)
    ELSE i

\* The match of the pattern that starts at position i, if there is one.
pattern_match_at(text, i) ==
    IF ~(i < Len(text) /\ char_at(text, i) = "{") THEN None
    ELSE LET j == skip_spaces(text, i + 1) IN
         IF ~(j < Len(text) /\ char_at(text, j) = "[") THEN None
         ELSE LET k == find(text, "]", j + 1) IN
              IF k = -1 \/ k = j + 1 THEN None
              ELSE IF ~(k + 1 < Len(text) /\ char_at(text, k + 1) = ";") THEN None
              ELSE Some([name |-> slice(text, j + 1, k), end |-> k + 2])

RECURSIVE findall_from(_, _, _)
findall_from(text, i, found_names) ==
    IF ~(i < Len(text)) THEN found_names
    ELSE LET m == pattern_match_at(text, i) IN
         IF m = None THEN findall_from(text, i + 1, found_names)
         ELSE findall_from(text, m.value.end, Append(found_names, m.value.name))

found_names_of(text) == findall_from(text, 0, <<>>)

\* (len(invalid_names) == 0, invalid_names); roster is the dict, as the
\* list of its <<name, description>> items.
roster_names(roster) == { roster[k][1] : k \in 1..Len(roster) }

validate_character_speech(text, roster) ==
    LET invalid == SelectSeq(found_names_of(text),
                             LAMBDA name : name \notin roster_names(roster))
    IN [is_valid |-> Len(invalid) = 0, invalid_names |-> invalid]

\* Mutant: the text is returned with its markup.
clean_character_speech_kept(text) == text

\* " ".join(speech for _, speech in parts)
clean_character_speech(text) ==
    LET parts == parse_text_to_speech(text)
    IN Join(" ", [k \in 1..Len(parts) |-> parts[k][2]])

(***************************************************************************)
(* DialogActor.Actor.get_detailed_action, the tagged renderer: called with *)
(* a summary (final_output) and the user input (message) on a roster       *)
(* (active_characters).                                                    *)
(***************************************************************************)
\* Mutant: one more attempt.
max_retries_four == 3 + 1

max_retries == 3

tagged_start_message(lang) ==
    formatted_start_message(lang)
    \o "\nWhen characters speak, format their speech as: { [Character Name]; [Speech] }"

tagged_narration_prompt(active, user_input, game_master_output) ==
    "Current scene characters:\n" \o characters_info(active)
    \o "\nUser's input: \"" \o user_input
    \o "\"\nGame Master's output: " \o game_master_output
    \o "\nFormat character speech as: { [Character Name]; \"Speech\" }"

invalid_names_error(names) ==
    "\nError: The following character names are not valid: " \o join_names(names)
    \o ". Please use only valid character names from the list above."

\* What the renderer's generator may answer.
TaggedResponses ==
    { "The smith waves.",
      "Ada nods. { [Ada]; \"Hi.\" }",
      "{ [Zed]; \"Hi.\" } waves",
      "{ Zed; \"Hi.\" }",
      "{ [Ada]; \"Hi.\" } and {  [Bob]; \"No.\" }" }

Rosters ==
    { <<>>, << <<"Ada", "A smith.">> >>, << <<"Bob", "A smith.">> >>,
      << <<"Ada", "A smith.">>, <<"Bob", "A smith.">> >> }

Summaries == { off_topic_message_eng, "Ada: waves.\n" }

InitDialog ==
    /\ language \in Languages
    /\ db = save_actor_prompt(DbWithCast(<<"Ada", "Bob">>),
                              tagged_start_message(language),
                              "Ready to narrate concisely")
    /\ constructed = TRUE
    /\ messages = <<>>
    /\ characters = GameMaster_load_characters(db)
    /\ actor_messages =
         add_ai_message(add_system_message(<<>>, tagged_start_message(language)),
                        "Ready to narrate concisely")
    /\ active_characters \in Rosters
    /\ pc = "TaggedCalled"
    /\ message = "look"
    /\ output = <<>>
    /\ parsed = Result(None, "")
    /\ cnt_errore = 0
    /\ final_output \in Summaries
    /\ active_names = roster_names(active_characters)
    /\ final_message = ""
    /\ outcome = "none"
    /\ gm_calls = 1
    /\ actor_calls = 1
    /\ start = [db |-> db, characters |-> characters, gm_calls |-> 0,
                actor_calls |-> 0]
    /\ ended = FALSE
    /\ turns = 1
    /\ entry = "process_input"
    /\ reply = NoReply
    /\ retry_count = 0
    /\ tagged_response = ""
    /\ invalid_names = <<>>
    /\ tagged_prompt = ""
    /\ segmenter_messages = <<>>
    /\ source_text = ""
    /\ attempt = 0
    /\ errors = None
    /\ segmenter_response = <<>>
    /\ segments = <<>>
    /\ segmenter_result = <<>>
    /\ tables = EmptyTables
    /\ instances = <<>>

\* The off-topic sentinel is answered without a generation call; otherwise
\* the retry loop is entered.
TaggedBegin ==
    /\ pc = "TaggedCalled"
    /\ UNCHANGED <<segmenter_state, sessions_state>>
    /\ IF final_output = off_topic_message_eng
       THEN LET canned == off_topic_response(language)
            IN /\ db' = save_actor_message(db, final_output, canned)
               /\ final_message' = canned
               /\ outcome' = "returned"
               /\ pc' = "TaggedReturned"
               /\ UNCHANGED retry_count
       ELSE /\ retry_count' = 0
            /\ pc' = "TaggedGenerating"
            /\ UNCHANGED <<db, final_message, outcome>>
    /\ UNCHANGED <<language, constructed, messages, characters, actor_messages,
                   active_characters, message, output, parsed, cnt_errore,
                   final_output, active_names, gm_calls, actor_calls, start,
                   ended, turns, entry, reply, tagged_response, invalid_names,
                   tagged_prompt>>

\* The top of "while retry_count < max_retries": narration_prompt is
\* assigned the template text and sent.
TaggedGenerate ==
    /\ pc = "TaggedGenerating"
    /\ UNCHANGED <<segmenter_state, sessions_state>>
    /\ tagged_prompt' = tagged_narration_prompt(active_characters, message,
                                                final_output)
    /\ \E r \in TaggedResponses :
        /\ tagged_response' = r
        /\ actor_messages' = generate(actor_messages, tagged_prompt', r)
    /\ pc' = "TaggedValidating"
    /\ UNCHANGED <<db, language, constructed, messages, characters,
                   active_characters, message, output, parsed, cnt_errore,
                   final_output, active_names, final_message, outcome,
                   gm_calls, actor_calls, start, ended, turns, entry, reply,
                   retry_count, invalid_names>>

\* validate_character_speech(response), then break, retry or raise.
TaggedValidate ==
    /\ pc = "TaggedValidating"
    /\ UNCHANGED <<segmenter_state, sessions_state>>
    /\ LET v == validate_character_speech(tagged_response, active_characters) IN
        /\ invalid_names' = v.invalid_names
        /\ IF v.is_valid
           THEN /\ pc' = "TaggedCleaning"
                /\ UNCHANGED <<retry_count, tagged_prompt, outcome>>
           ELSE /\ retry_count' = retry_count + 1
                /\ IF retry_count' < max_retries
                   THEN /\ tagged_prompt' =
                             tagged_prompt \o invalid_names_error(v.invalid_names)
                        /\ pc' = "TaggedGenerating"
                        /\ UNCHANGED outcome
                   ELSE /\ outcome' = "ValueError"
                        /\ pc' = "TaggedRaised"
                        /\ UNCHANGED tagged_prompt
    /\ UNCHANGED <<db, language, constructed, messages, characters,
                   actor_messages, active_characters, message, output, parsed,
                   cnt_errore, final_output, active_names, final_message,
                   gm_calls, actor_calls, start, ended, turns, entry, reply,
                   tagged_response>>

\* clean_character_speech, save_actor_message with the tagged response,
\* return the cleaned one.
TaggedFinish ==
    /\ pc = "TaggedCleaning"
    /\ UNCHANGED <<segmenter_state, sessions_state>>
    /\ db' = save_actor_message(db, final_output, tagged_response)
    /\ final_message' = clean_character_speech(tagged_response)
    /\ outcome' = "returned"
    /\ pc' = "TaggedReturned"
    /\ UNCHANGED <<language, constructed, messages, characters, actor_messages,
                   active_characters, message, output, parsed, cnt_errore,
                   final_output, active_names, gm_calls, actor_calls, start,
                   ended, turns, entry, reply, retry_count, tagged_response,
                   invalid_names, tagged_prompt>>

NextDialog ==
    \/ TaggedBegin
    \/ TaggedGenerate
    \/ TaggedValidate
    \/ TaggedFinish

SpecDialog == InitDialog /\ [][NextDialog]_vars

(***************************************************************************)
(* DialogueProcessor: the pure parts. A response is given as its           *)
(* split("\n"); a segment is <<speaker, quote>>.                           *)
(***************************************************************************)
startswith(s, prefix) ==
    Len(s) >= Len(prefix) /\ SubSeq(s, 1, Len(prefix)) = prefix

\* s.strip('"')
RECURSIVE strip_quotes(_)
strip_quotes(s) ==
    IF Len(s) > 0 /\ char_at(s, 0) = "\""
    THEN strip_quotes(slice(s, 1, Len(s)))
    ELSE IF Len(s) > 0 /\ char_at(s, Len(s) - 1) = "\""
    THEN strip_quotes(slice(s, 0, Len(s) - 1))
    ELSE s

\* text.find(s): the first position where s occurs, or -1.
find_text(text, s) ==
    LET hits == { i \in 0..(Len(text) - Len(s)) : slice(text, i, i + Len(s)) = s }
    IN IF hits = {} THEN -1 ELSE CHOOSE i \in hits : \A j \in hits : i <= j

Digits == "0123456789"

\* c.isalnum()
isalnum(c) ==
    \/ \E k \in 1..26 : c = SubSeq(UpperLetters, k, k) \/ c = SubSeq(LowerLetters, k, k)
    \/ \E k \in 1..10 : c = SubSeq(Digits, k, k)

\* any(c.isalnum() for c in text)
is_not_only_punctuation(text) == \E i \in 0..(Len(text) - 1) : isalnum(char_at(text, i))

\* DialogueProcessor._parse_response, from line k on. current_speaker is ""
\* while it is None or empty (both are false in the tests made on it).
RECURSIVE parse_response_from(_, _, _, _, _)
parse_response_from(lines, k, segs, current_speaker, current_text) ==
    IF k > Len(lines)
    THEN IF current_speaker # "" /\ current_text # None
         THEN Append(segs, <<current_speaker, current_text.value>>) ELSE segs
    ELSE
    LET line == strip(lines[k]) IN
    IF line = "" THEN
        parse_response_from(lines, k + 1, segs, current_speaker, current_text)
    ELSE IF startswith(line, "Speaker==") THEN
        parse_response_from(lines, k + 1,
            IF current_speaker # "" /\ current_text # None
            THEN Append(segs, <<current_speaker, current_text.value>>) ELSE segs,
            strip(slice(line, 9, Len(line))), None)
    ELSE IF startswith(line, "Text==") /\ current_speaker # "" THEN
        parse_response_from(lines, k + 1, segs, current_speaker,
                            Some(strip(slice(line, 6, Len(line)))))
    ELSE parse_response_from(lines, k + 1, segs, current_speaker, current_text)

parse_response(lines) == parse_response_from(lines, 1, <<>>, "", None)

\* The names similar to an unknown speaker, as "[name]".
similar_names_of(speaker, character_names) ==
    LET hits == SelectSeq(character_names,
                    LAMBDA name : \/ contains(Lower(name), Lower(speaker))
                                  \/ contains(Lower(speaker), Lower(name)))
    IN [k \in 1..Len(hits) |-> "[" \o hits[k] \o "]"]

\* clean_quote in original_text
quote_is_literal(quote, original_text) ==
    contains(original_text, strip_quotes(quote))

\* DialogueProcessor._analyze_errors: None, or the error report.
analyze_errors(original_text, segs, character_names) ==
    LET IsIn(x, s) == \E k \in 1..Len(s) : s[k] = x
        unknown == { i \in 1..Len(segs) : ~IsIn(segs[i][1], character_names) }
        location(i) ==
            LET similar == similar_names_of(segs[i][1], character_names)
            IN "segment " \o ToString(i - 1) \o ": '" \o segs[i][1] \o "'"
               \o (IF similar # <<>>
                   THEN " - did you mean " \o Join(", ", similar) \o "?" ELSE "")
        unknown_seq == SelectSeq([i \in 1..Len(segs) |-> i], LAMBDA i : i \in unknown)
        speakers_error ==
            IF unknown = {} THEN <<>>
            ELSE << "Unknown speakers found at: "
                    \o Join(", ", [k \in 1..Len(unknown_seq) |-> location(unknown_seq[k])]) >>
        missing == SelectSeq([i \in 1..Len(segs) |-> i],
                       LAMBDA i : ~quote_is_literal(segs[i][2], original_text))
        quote_errors ==
            [k \in 1..Len(missing) |->
                "Quote at segment " \o ToString(missing[k] - 1)
                \o " not found in original text: " \o segs[missing[k]][2]]
        all == speakers_error \o quote_errors
    IN IF all = <<>> THEN None ELSE Some(Join("\n", all))

\* ordered_segments.sort(key=pos): a stable insertion.
RECURSIVE sort_by_pos(_)
sort_by_pos(items) ==
    IF items = <<>> THEN <<>>
    ELSE LET sorted == sort_by_pos(SubSeq(items, 1, Len(items) - 1))
             x == items[Len(items)]
             before == SelectSeq(sorted, LAMBDA y : y.pos <= x.pos)
             after == SelectSeq(sorted, LAMBDA y : y.pos > x.pos)
         IN before \o <<x>> \o after

\* The segments found in the text by text.find(quote), with their position.
ordered_segments_of(original_text, segs) ==
    LET located == [k \in 1..Len(segs) |->
                      [pos |-> find_text(original_text, segs[k][2]),
                       speaker |-> segs[k][1], quote |-> segs[k][2]]]
    IN sort_by_pos(SelectSeq(located, LAMBDA x : x.pos # -1))

\* The loop over ordered_segments of process_text, then the remaining text.
RECURSIVE interleave(_, _, _, _, _)
interleave(original_text, ordered, k, current_pos, res) ==
    IF k > Len(ordered)
    THEN LET remaining == strip(slice(original_text, current_pos, Len(original_text)))
         IN IF current_pos < Len(original_text) /\ remaining # ""
               /\ is_not_only_punctuation(remaining)
            THEN Append(res, <<"GM", remaining>>) ELSE res
    ELSE LET x == ordered[k]
             gm_text == strip(slice(original_text, current_pos, x.pos))
             res1 == IF x.pos > current_pos /\ gm_text # ""
                        /\ is_not_only_punctuation(gm_text)
                     THEN Append(res, <<"GM", gm_text>>) ELSE res
         IN interleave(original_text, ordered, k + 1, x.pos + Len(x.quote),
                       Append(res1, <<x.speaker, x.quote>>))

order_and_interleave(original_text, segs) ==
    interleave(original_text, ordered_segments_of(original_text, segs), 1, 0, <<>>)

(***************************************************************************)
(* DialogueProcessor.process_text on a session whose cast is Ada and Bob.  *)
(***************************************************************************)
\* Mutant: one more attempt.
max_attempts_six == 5 + 1

max_attempts == 5

\* get_characters(): the names, in row order.
character_names_of(d) == [k \in 1..Len(d.characters) |-> d.characters[k].name]

\* DialogueProcessor._load_prompts: the context a new DialogueProcessor
\* builds from the session's dialogue_prompts rows.
DialogueProcessor_load_prompts(d) ==
    Flatten([k \in 1..Len(d.dialogue_prompts) |->
               << Msg("user", d.dialogue_prompts[k].prompt_content),
                  Msg("assistant", d.dialogue_prompts[k].model_response) >>])

\* DialogueProcessor._create_initial_prompt; errs is None or the report.
create_initial_prompt(original_text, errs, d) ==
    "You are a dialogue processor.\nValid speaker names are:\n"
    \o Join("\n", [k \in 1..Len(d.characters) |-> "[" \o d.characters[k].name \o "]"])
    \o "\nKnown characters and their descriptions:\n"
    \o Join("\n", [k \in 1..Len(d.characters) |->
            "Character name- [" \o d.characters[k].name
            \o "]. \n Character description- " \o d.characters[k].description])
    \o "\nText to process:\n" \o original_text
    \o (IF errs = None THEN ""
        ELSE "\n Previous attempt had the following errors: \n " \o errs.value)

SourceTexts ==
    { "Ada said \"Hi.\" Bob: \"No.\" ok",
      "Ada said hi. Bob left.",
      "\"Yes.\" - \"Yes.\"" }

\* What the segmenter's generator may answer.
SegmenterResponses ==
    { <<"Speaker==Bob", "Text==\"No.\"", "", " Speaker== Ada ", "Text== \"Hi.\"">>,
      <<"Speaker==Ada", "Text==\"said hi\"">>,
      <<"Speaker==Ada", "Text==\"Yes.\"", "Speaker==Bob", "Text==\"Yes.\"">>,
      <<"Speaker==Zed", "Text==\"Hi.\"">>,
      <<"Speaker==ad", "Text==\"Bye.\"">>,
      <<"No direct speech.">> }

\* The records generate_answer leaves for a turn whose renderer answered
\* text: the renderer's record, the user record and the master record.
persisted_turn(d, user_input, text) ==
    save_master_message(
        save_user_message(save_actor_message(d, "Ada: waves\n", text),
                          user_input, text),
        user_input, "Ada: waves\n", actor_message_of(text))

\* What process_input returns: the text and the audio path (or None).
ReturnedWithAudio(text, audio_path) ==
    [kind |-> "returned", text |-> text, audio_path |-> audio_path]

InitSegment ==
    /\ language = "English"
    /\ source_text \in SourceTexts
    /\ db = persisted_turn(DbWithCast(<<"Ada", "Bob">>), "look", source_text)
    /\ constructed = TRUE
    /\ messages = <<>>
    /\ characters = GameMaster_load_characters(db)
    /\ actor_messages = <<>>
    /\ active_characters = <<>>
    /\ pc = "SegmentCalled"
    /\ message = "look"
    /\ output = <<>>
    /\ parsed = Result(None, "")
    /\ cnt_errore = 0
    /\ final_output = ""
    /\ active_names = {}
    /\ final_message = source_text
    /\ outcome = "none"
    /\ gm_calls = 1
    /\ actor_calls = 1
    /\ start = [db |-> db, characters |-> characters, gm_calls |-> 0,
                actor_calls |-> 0]
    /\ ended = FALSE
    /\ turns = 1
    /\ entry = "process_input"
    /\ reply = NoReply
    /\ retry_count = 0
    /\ tagged_response = ""
    /\ invalid_names = <<>>
    /\ tagged_prompt = ""
    /\ segmenter_messages = <<>>
    /\ attempt = 0
    /\ errors = None
    /\ segmenter_response = <<>>
    /\ segments = <<>>
    /\ segmenter_result = <<>>
    /\ tables = EmptyTables
    /\ instances = <<>>

SegmentUnchanged ==
    UNCHANGED <<language, constructed, messages, characters, actor_messages,
                active_characters, message, output, parsed, cnt_errore,
                final_output, active_names, final_message, gm_calls,
                actor_calls, start, ended, turns, entry, tagged_locals,
                source_text, sessions_state>>

\* The top of "while attempt < max_attempts": the prompt and the answer.
SegmentGenerate ==
    /\ pc = "SegmentCalled"
    /\ \E r \in SegmenterResponses :
        /\ segmenter_response' = r
        /\ segmenter_messages' =
             generate(segmenter_messages,
                      create_initial_prompt(source_text, errors, db), OutputText(r))
    /\ pc' = "SegmentChecking"
    /\ SegmentUnchanged
    /\ UNCHANGED <<db, attempt, errors, segments, segmenter_result, outcome,
                   reply>>

\* _parse_response, _analyze_errors, _save_prompt, then the test on errors;
\* after the 5th failure the loop ends and ValueError is raised.
SegmentCheck ==
    /\ pc = "SegmentChecking"
    /\ segments' = parse_response(segmenter_response)
    /\ errors' = analyze_errors(source_text, segments', character_names_of(db))
    /\ db' = save_dialogue_prompt(db, 1,
                 create_initial_prompt(source_text, errors, db),
                 OutputText(segmenter_response))
    /\ IF errors' = None
       THEN /\ pc' = "SegmentOrdering"
            /\ UNCHANGED <<attempt, outcome>>
       ELSE /\ attempt' = attempt + 1
            /\ IF attempt' < max_attempts
               THEN pc' = "SegmentCalled" /\ UNCHANGED outcome
               ELSE pc' = "SegmentRaised" /\ outcome' = "ValueError"
    /\ SegmentUnchanged
    /\ UNCHANGED <<segmenter_messages, segmenter_response, segmenter_result,
                   reply>>

\* The quotes ordered by position and interleaved with the narrator's text.
SegmentOrder ==
    /\ pc = "SegmentOrdering"
    /\ segmenter_result' = order_and_interleave(source_text, segments)
    /\ outcome' = "returned"
    /\ pc' = "SegmentReturned"
    /\ SegmentUnchanged
    /\ UNCHANGED <<db, segmenter_messages, attempt, errors, segmenter_response,
                   segments, reply>>

\* GameManager.process_input around process_actor_message: the audio path
\* when the segments were synthesized, None when segmentation or synthesis
\* raised ("except Exception"); the text is returned in either case.
SegmentFinishInput ==
    /\ pc \in {"SegmentReturned", "SegmentRaised"}
    /\ \E audio_path \in IF pc = "SegmentRaised" THEN {None}
                         ELSE {None, Some("sound/1/1.mp3")} :
        reply' = ReturnedWithAudio(final_message, audio_path)
    /\ pc' = "SegmentInputReturned"
    /\ SegmentUnchanged
    /\ UNCHANGED <<db, segmenter_messages, attempt, errors, segmenter_response,
                   segments, segmenter_result, outcome>>

NextSegment ==
    \/ SegmentGenerate
    \/ SegmentCheck
    \/ SegmentOrder
    \/ SegmentFinishInput

SpecSegment == InitSegment /\ [][NextSegment]_vars

(***************************************************************************)
(* Several sessions in one database. Every row carries its session_id;     *)
(* each session is served by its own GameManager. Session 3 has no row in  *)
(* the sessions table.                                                      *)
(***************************************************************************)
SessionIds == {1, 2, 3}

SessionRows ==
    << [session_id |-> 1, language |-> "English"],
       [session_id |-> 2, language |-> "Russian"] >>

\* ... WHERE session_id = ?
where(rows, session_id) == SelectSeq(rows, LAMBDA r : r.session_id = session_id)

\* What the statements of a session read: the rows of that session.
session_db(t, session_id) ==
    [characters |-> where(t.characters, session_id),
     user_messages |-> where(t.user_messages, session_id),
     master_messages |-> where(t.master_messages, session_id),
     actor_messages |-> where(t.actor_messages, session_id),
     game_master_prompts |-> where(t.game_master_prompts, session_id),
     actor_prompts |-> where(t.actor_prompts, session_id),
     active_characters |->
         { r \in t.active_characters : r.session_id = session_id },
     image_prompts |-> where(t.image_prompts, session_id)]

\* Mutant: a row is made up for a session that has none.
get_session_info_made_up(t, session_id) ==
    Some([session_id |-> session_id, language |-> "English"])

\* get_session_info: fetchone(); None stands for "raise RuntimeError".
get_session_info(t, session_id) ==
    LET rows == where(t.sessions, session_id)
    IN IF rows = <<>> THEN None ELSE Some(rows[1])

\* INSERT INTO characters: character_id is autoincremented over the table.
save_character_for(t, session_id, name, description, gender) ==
    [t EXCEPT !.characters =
        Append(@, [character_id |-> Len(@) + 1, session_id |-> session_id,
                   name |-> name, description |-> description,
                   gender |-> gender])]

RECURSIVE save_characters_for(_, _, _)
save_characters_for(t, session_id, created) ==
    IF created = <<>> THEN t
    ELSE save_characters_for(
             save_character_for(t, session_id, created[1].name,
                                created[1].description, created[1].gender),
             session_id, Tail(created))

\* SELECT COALESCE(MAX(sequence_number), 0) ... WHERE session_id = ?, then
\* INSERT with the next number: save_user_message, save_master_message,
\* save_actor_message, save_image_prompt.
numbered_insert(rows, session_id, fields) ==
    Append(rows, fields @@ [session_id |-> session_id,
                            sequence_number |-> next_seq(where(rows, session_id))])

\* INSERT INTO game_master_prompts / actor_prompts
prompt_insert(rows, session_id, fields) ==
    Append(rows, fields @@ [session_id |-> session_id])

\* Mutant: the DELETE is keyed by the sequence number alone.
deleted_active_row_of_any_session(r, session_id, sequence_number) ==
    r.sequence_number = sequence_number

\* DELETE FROM active_characters WHERE session_id = ? AND sequence_number = ?
deleted_active_row(r, session_id, sequence_number) ==
    r.session_id = session_id /\ r.sequence_number = sequence_number

save_active_characters_for(t, session_id, sequence_number, character_ids) ==
    [t EXCEPT !.active_characters =
        { r \in @ : ~deleted_active_row(r, session_id, sequence_number) }
        \cup { [session_id |-> session_id, sequence_number |-> sequence_number,
                character_id |-> id] : id \in character_ids }]

\* The bootstrap rows the constructors write: Actor.__init__ when the
\* session has no actor prompt, GameMaster.__init__ when it is new.
construct_rows(t, s, d, lang) ==
    LET t1 == IF d.actor_prompts = <<>>
              THEN [t EXCEPT !.actor_prompts =
                      prompt_insert(@, s,
                        [prompt_content |-> formatted_start_message(lang),
                         model_response |-> "Ready to narrate concisely"])]
              ELSE t
    IN IF is_new_session_gm_prompt(d)
       THEN [t1 EXCEPT !.game_master_prompts =
               prompt_insert(
                 prompt_insert(
                   prompt_insert(@, s,
                     [prompt_type |-> "start",
                      prompt_content |-> gm_start_message,
                      model_response |-> "Understood"]),
                   s, [prompt_type |-> "world",
                       prompt_content |-> world_prompt,
                       model_response |-> "Understood"]),
                 s, [prompt_type |-> "character",
                     prompt_content |-> formatted_character,
                     model_response |-> "Understood"])]
       ELSE t1

\* No GameManager has been constructed for the session.
NoInstance ==
    [constructed |-> FALSE, error |-> "none", pc |-> "Idle", messages |-> <<>>,
     actor_messages |-> <<>>, characters |-> <<>>, message |-> "",
     master_output |-> "", final_output |-> "", active_names |-> {},
     final_message |-> "", turns |-> 0]

\* Outputs that generate_instruction returns for the session's cast.
SessionOutputs ==
    { <<"Create character command", "Ada", "male", "A smith.">>,
      <<"Create character command", "Bob", "female", "A baker.",
        "Select character command", "Bob", "waves.">>,
      <<"Off-topic input command">> }

\* Turns begun so far, over the three session ids.
TurnsOfAllSessions ==
    instances[1].turns + instances[2].turns + instances[3].turns

InitSessions ==
    /\ db = EmptyDb
    /\ language = "English"
    /\ constructed = FALSE
    /\ messages = <<>>
    /\ characters = <<>>
    /\ actor_messages = <<>>
    /\ active_characters = <<>>
    /\ pc = "Sessions"
    /\ message = ""
    /\ output = <<>>
    /\ parsed = Result(None, "")
    /\ cnt_errore = 0
    /\ final_output = ""
    /\ active_names = {}
    /\ final_message = ""
    /\ outcome = "none"
    /\ gm_calls = 0
    /\ actor_calls = 0
    /\ start = [db |-> EmptyDb, characters |-> <<>>, gm_calls |-> 0,
                actor_calls |-> 0]
    /\ ended = FALSE
    /\ turns = 0
    /\ entry = "none"
    /\ reply = NoReply
    /\ retry_count = 0
    /\ tagged_response = ""
    /\ invalid_names = <<>>
    /\ tagged_prompt = ""
    /\ segmenter_messages = <<>>
    /\ source_text = ""
    /\ attempt = 0
    /\ errors = None
    /\ segmenter_response = <<>>
    /\ segments = <<>>
    /\ segmenter_result = <<>>
    /\ tables = [EmptyTables EXCEPT !.sessions = SessionRows]
    /\ instances = [s \in SessionIds |-> NoInstance]

SessionsUnchanged ==
    UNCHANGED <<db, language, constructed, messages, characters, actor_messages,
                active_characters, pc, message, output, parsed, cnt_errore,
                final_output, active_names, final_message, outcome, gm_calls,
                actor_calls, start, ended, turns, entry, reply, tagged_locals,
                segmenter_state>>

\* GameManager.__init__ -> GameMaster.__init__ -> Actor.__init__ for the
\* session id s: get_session_info comes first and raises when the session
\* has no row; otherwise the bootstrap records are written when the session
\* has none and the contexts are primed from the session's rows.
SessionConstruct(s) ==
    /\ ~instances[s].constructed
    /\ LET session_info == get_session_info(tables, s) IN
       IF session_info = None
       THEN /\ instances' = [instances EXCEPT ![s].error = "RuntimeError"]
            /\ UNCHANGED tables
       ELSE LET lang == session_info.value.language
                d == session_db(tables, s)
                g == GameMaster_init(d, lang)
            IN /\ tables' = construct_rows(tables, s, d, lang)
               /\ instances' =
                    [instances EXCEPT
                       ![s] = [@ EXCEPT !.constructed = TRUE,
                                        !.messages = g.messages,
                                        !.actor_messages = g.actor_messages,
                                        !.characters = g.characters]]
    /\ SessionsUnchanged

\* generate_answer up to the renderer: generate_instruction returns the
\* commands of a valid output, parse_commands applies them.
SessionApply(s) ==
    /\ instances[s].constructed
    /\ instances[s].pc = "Idle"
    /\ TurnsOfAllSessions < MaxSessionTurns
    /\ \E m \in UserInputs, o \in SessionOutputs :
        LET i == instances[s]
            v == validate_and_parse(o, i.characters)
        IN /\ v.parsed_data # None
           /\ LET r == parse_commands(v.parsed_data.value, i.characters, EmptyDb)
              IN /\ ~r.raised
                 /\ tables' = save_characters_for(tables, s, r.db.characters)
                 /\ instances' =
                      [instances EXCEPT
                         ![s] = [@ EXCEPT
                                   !.pc = "Rendering",
                                   !.turns = @ + 1,
                                   !.message = m,
                                   !.master_output = OutputText(o),
                                   !.messages = generate(@, m \o "\n" \o rules,
                                                         OutputText(o)),
                                   !.characters = r.characters,
                                   !.final_output = r.final_output,
                                   !.active_names = r.active_characters]]
    /\ SessionsUnchanged

\* Actor.get_detailed_action and its save_actor_message; in the renderer's
\* context the narration prompt is abbreviated to the summary.
SessionRender(s) ==
    /\ instances[s].pc = "Rendering"
    /\ LET i == instances[s]
           lang == get_session_info(tables, s).value.language
       IN \E response \in IF i.final_output = off_topic_message_eng
                          THEN {off_topic_response(lang)}
                          ELSE ActorResponses :
           /\ tables' = [tables EXCEPT !.actor_messages =
                           numbered_insert(@, s,
                             [master_prompt |-> i.final_output,
                              actor_response |-> response])]
           /\ instances' =
                [instances EXCEPT
                   ![s] = [@ EXCEPT
                             !.pc = "PersistingMessages",
                             !.final_message = response,
                             !.actor_messages =
                                 IF i.final_output = off_topic_message_eng THEN @
                                 ELSE generate(@, i.final_output, response)]]
    /\ SessionsUnchanged

\* generate_answer: add_system_message, save_user_message, save_master_message.
SessionPersistMessages(s) ==
    /\ instances[s].pc = "PersistingMessages"
    /\ LET i == instances[s]
           actor_message == actor_message_of(i.final_message)
       IN /\ tables' =
               [tables EXCEPT
                  !.user_messages =
                      numbered_insert(@, s, [user_input |-> i.message,
                                             response |-> i.final_message]),
                  !.master_messages =
                      numbered_insert(@, s, [user_input |-> i.message,
                                             master_output |-> i.master_output,
                                             actor_output |-> actor_message])]
          /\ instances' =
               [instances EXCEPT
                  ![s] = [@ EXCEPT !.pc = "PersistingActive",
                                   !.messages = add_system_message(@, actor_message)]]
    /\ SessionsUnchanged

\* generate_answer: get_character_id per active name, then
\* save_active_characters under len(get_image_prompts(session_id)).
SessionPersistActive(s) ==
    /\ instances[s].pc = "PersistingActive"
    /\ LET i == instances[s]
           d == session_db(tables, s)
           ids == { get_character_id(d, n) : n \in i.active_names }
           character_ids == { id.value : id \in { x \in ids : x # None } }
       IN tables' = save_active_characters_for(tables, s, Len(d.image_prompts),
                                               character_ids)
    /\ instances' = [instances EXCEPT ![s].pc = "Returned"]
    /\ SessionsUnchanged

\* process_input after generate_answer: the image prompt, when one is saved.
SessionFinish(s) ==
    /\ instances[s].pc = "Returned"
    /\ LET i == instances[s] IN
       \E saved \in BOOLEAN :
          tables' = IF saved
                    THEN [tables EXCEPT !.image_prompts =
                            numbered_insert(@, s,
                              [user_input |-> i.message,
                               narrative_response |-> i.final_message,
                               image_prompt |-> "image prompt"])]
                    ELSE tables
    /\ instances' = [instances EXCEPT ![s].pc = "Idle"]
    /\ SessionsUnchanged

NextSessions ==
    \E s \in SessionIds :
        \/ SessionConstruct(s)
        \/ SessionApply(s)
        \/ SessionRender(s)
        \/ SessionPersistMessages(s)
        \/ SessionPersistActive(s)
        \/ SessionFinish(s)

SpecSessions == InitSessions /\ [][NextSessions]_vars

(***************************************************************************)
(* Two web requests on one session. send_message builds a GameManager for  *)
(* the session and runs one turn; nothing serializes two requests. Every   *)
(* SQL statement is one step: the SELECT of the greatest sequence number   *)
(* and the INSERT that uses it are two statements of save_user_message,    *)
(* save_master_message and save_actor_message.                             *)
(***************************************************************************)
RequestIds == {1, 2}

\* The session of both requests.
RequestSession == SessionRows[1].session_id

\* The request has not arrived. next_seq is the local of the save in
\* progress (0 before its SELECT); concurrent records that another request
\* was in flight at some time between this one's arrival and its return.
NoRequest ==
    NoInstance @@ [next_seq |-> 0, concurrent |-> FALSE]

InFlight(r) == instances[r].constructed /\ instances[r].pc # "Done"

InitRequests ==
    /\ db = EmptyDb
    /\ language = "English"
    /\ constructed = FALSE
    /\ messages = <<>>
    /\ characters = <<>>
    /\ actor_messages = <<>>
    /\ active_characters = <<>>
    /\ pc = "Requests"
    /\ message = ""
    /\ output = <<>>
    /\ parsed = Result(None, "")
    /\ cnt_errore = 0
    /\ final_output = ""
    /\ active_names = {}
    /\ final_message = ""
    /\ outcome = "none"
    /\ gm_calls = 0
    /\ actor_calls = 0
    /\ start = [db |-> EmptyDb, characters |-> <<>>, gm_calls |-> 0,
                actor_calls |-> 0]
    /\ ended = FALSE
    /\ turns = 0
    /\ entry = "none"
    /\ reply = NoReply
    /\ retry_count = 0
    /\ tagged_response = ""
    /\ invalid_names = <<>>
    /\ tagged_prompt = ""
    /\ segmenter_messages = <<>>
    /\ source_text = ""
    /\ attempt = 0
    /\ errors = None
    /\ segmenter_response = <<>>
    /\ segments = <<>>
    /\ segmenter_result = <<>>
    /\ tables = [EmptyTables EXCEPT !.sessions = SessionRows]
    /\ instances = [r \in RequestIds |-> NoRequest]

\* game_manager = GameManager(session.game_session_id)
RequestConstruct(r) ==
    /\ ~instances[r].constructed
    /\ LET lang == get_session_info(tables, RequestSession).value.language
           d == session_db(tables, RequestSession)
           g == GameMaster_init(d, lang)
           others == { q \in RequestIds \ {r} : InFlight(q) }
       IN /\ tables' = construct_rows(tables, RequestSession, d, lang)
          /\ instances' =
               [q \in RequestIds |->
                  IF q = r
                  THEN [instances[r] EXCEPT !.constructed = TRUE,
                                            !.messages = g.messages,
                                            !.actor_messages = g.actor_messages,
                                            !.characters = g.characters,
                                            !.concurrent = (others # {})]
                  ELSE IF q \in others
                  THEN [instances[q] EXCEPT !.concurrent = TRUE]
                  ELSE instances[q]]
    /\ SessionsUnchanged

\* generate_answer up to the renderer, against the map this GameManager
\* loaded when it was built.
RequestApply(r) ==
    /\ instances[r].constructed
    /\ instances[r].pc = "Idle"
    /\ \E m \in UserInputs, o \in SessionOutputs :
        LET i == instances[r]
            v == validate_and_parse(o, i.characters)
        IN /\ v.parsed_data # None
           /\ LET p == parse_commands(v.parsed_data.value, i.characters, EmptyDb)
              IN /\ ~p.raised
                 /\ tables' = save_characters_for(tables, RequestSession,
                                                  p.db.characters)
                 /\ instances' =
                      [instances EXCEPT
                         ![r] = [@ EXCEPT
                                   !.pc = "Rendering",
                                   !.turns = @ + 1,
                                   !.message = m,
                                   !.master_output = OutputText(o),
                                   !.messages = generate(@, m \o "\n" \o rules,
                                                         OutputText(o)),
                                   !.characters = p.characters,
                                   !.final_output = p.final_output,
                                   !.active_names = p.active_characters]]
    /\ SessionsUnchanged

\* Actor.get_detailed_action up to its save_actor_message.
RequestRender(r) ==
    /\ instances[r].pc = "Rendering"
    /\ LET i == instances[r]
           lang == get_session_info(tables, RequestSession).value.language
       IN \E response \in IF i.final_output = off_topic_message_eng
                          THEN {off_topic_response(lang)}
                          ELSE ActorResponses :
           instances' =
                [instances EXCEPT
                   ![r] = [@ EXCEPT
                             !.pc = "SavingActor",
                             !.final_message = response,
                             !.actor_messages =
                                 IF i.final_output = off_topic_message_eng THEN @
                                 ELSE generate(@, i.final_output, response)]]
    /\ UNCHANGED tables
    /\ SessionsUnchanged

\* The table a save in progress writes.
SavedTable(r) ==
    CASE instances[r].pc = "SavingActor" -> "actor_messages"
      [] instances[r].pc = "SavingUser" -> "user_messages"
      [] instances[r].pc = "SavingMaster" -> "master_messages"

Saving(r) == instances[r].pc \in {"SavingActor", "SavingUser", "SavingMaster"}

\* Mutant: the number read is always the first.
read_next_seq_first(t, table, session_id) == 1

\* SELECT COALESCE(MAX(sequence_number), 0) FROM ... WHERE session_id = ?
\* next_seq = cursor.fetchone()[0] + 1
read_next_seq(t, table, session_id) == next_seq(where(t[table], session_id))

\* The SELECT of save_actor_message, save_user_message, save_master_message.
RequestSelect(r) ==
    /\ Saving(r)
    /\ instances[r].next_seq = 0
    /\ instances' = [instances EXCEPT
                       ![r].next_seq = read_next_seq(tables, SavedTable(r),
                                                     RequestSession)]
    /\ UNCHANGED tables
    /\ SessionsUnchanged

\* The INSERT of the save, with the number its SELECT gave; generate_answer
\* adds the actor message to the game master's context between the actor's
\* save and the user message's.
RequestInsert(r) ==
    /\ Saving(r)
    /\ instances[r].next_seq # 0
    /\ LET i == instances[r]
           actor_message == actor_message_of(i.final_message)
           fields ==
             CASE i.pc = "SavingActor" ->
                    [master_prompt |-> i.final_output,
                     actor_response |-> i.final_message]
               [] i.pc = "SavingUser" ->
                    [user_input |-> i.message, response |-> i.final_message]
               [] i.pc = "SavingMaster" ->
                    [user_input |-> i.message, master_output |-> i.master_output,
                     actor_output |-> actor_message]
           row == fields @@ [session_id |-> RequestSession,
                             sequence_number |-> i.next_seq]
       IN /\ tables' = [tables EXCEPT ![SavedTable(r)] = Append(@, row)]
          /\ instances' =
               [instances EXCEPT
                  ![r] = [@ EXCEPT
                            !.next_seq = 0,
                            !.pc = CASE i.pc = "SavingActor" -> "SavingUser"
                                     [] i.pc = "SavingUser" -> "SavingMaster"
                                     [] i.pc = "SavingMaster" -> "PersistingActive",
                            !.messages =
                                IF i.pc = "SavingActor"
                                THEN add_system_message(@, actor_message)
                                ELSE @]]
    /\ SessionsUnchanged

\* generate_answer: get_character_id per active name, save_active_characters.
RequestPersistActive(r) ==
    /\ instances[r].pc = "PersistingActive"
    /\ LET i == instances[r]
           d == session_db(tables, RequestSession)
           ids == { get_character_id(d, n) : n \in i.active_names }
           character_ids == { id.value : id \in { x \in ids : x # None } }
       IN tables' = save_active_characters_for(tables, RequestSession,
                                               Len(d.image_prompts), character_ids)
    /\ instances' = [instances EXCEPT ![r].pc = "Returned"]
    /\ SessionsUnchanged

\* process_input after generate_answer, and the response of send_message.
RequestFinish(r) ==
    /\ instances[r].pc = "Returned"
    /\ LET i == instances[r] IN
       \E saved \in BOOLEAN :
          tables' = IF saved
                    THEN [tables EXCEPT !.image_prompts =
                            numbered_insert(@, RequestSession,
                              [user_input |-> i.message,
                               narrative_response |-> i.final_message,
                               image_prompt |-> "image prompt"])]
                    ELSE tables
    /\ instances' = [instances EXCEPT ![r].pc = "Done"]
    /\ SessionsUnchanged

NextRequests ==
    \E r \in RequestIds :
        \/ RequestConstruct(r)
        \/ RequestApply(r)
        \/ RequestRender(r)
        \/ RequestSelect(r)
        \/ RequestInsert(r)
        \/ RequestPersistActive(r)
        \/ RequestFinish(r)

SpecRequests == InitRequests /\ [][NextRequests]_vars


(***************************************************************************)
(* Vocabulary of the properties of the parser.                             *)
(***************************************************************************)
\* validate_and_parse has just answered: parsed is its answer for output
\* against characters, which no command has changed yet.
JustParsed == pc \in {"CorrectingFormat", "ApplyingCommands"}

LinesOfOutput == CleanedLines(output)

\* The names of the CreateCharacter commands of a command list.
CreatedNames(commands) ==
    { commands[k].name :
        k \in { j \in 1..Len(commands) : commands[j].kind = "CommandCreateCharacter" } }

\* The forward scan reaches index i (0-based) of lines: it starts there, or
\* the lines before i are a complete, accepted input of their own.
ScanReaches(lines, i, chars) ==
    \/ i = 0
    \/ validate_and_parse(SubSeq(lines, 1, i), chars).parsed_data # None

\* The names created by the commands the scan read before index i.
CreatedBefore(lines, i, chars) ==
    IF i = 0 THEN {}
    ELSE CreatedNames(validate_and_parse(SubSeq(lines, 1, i), chars).parsed_data.value)

\* A select keyword reached at i whose name line (the next line) is unknown.
UnknownSelectAt(lines, i, chars) ==
    /\ i + 1 < Len(lines)
    /\ ScanReaches(lines, i, chars)
    /\ match_command(At(lines, i), "Select character command")
    /\ Strip(At(lines, i + 1)) \notin DOMAIN chars \cup CreatedBefore(lines, i, chars)

DoesNotExist(name) == "Error: Character name '" \o name \o "' does not exist."
AlreadyExists(name) == "Error: Character name '" \o name \o "' already exists."

\* C1 as stated: whenever the scan reaches a select keyword whose name line
\* is neither in the cast nor created earlier in the input, the answer is
\* (None, "Character name ... does not exist").
C1_UnknownSelectAlwaysNamedUnknown ==
    JustParsed =>
        \A i \in 0..(Len(LinesOfOutput) - 1) :
            UnknownSelectAt(LinesOfOutput, i, characters) =>
                parsed = Result(None, DoesNotExist(Strip(At(LinesOfOutput, i + 1))))

\* C1 amended: such an input is never accepted, and when the select is
\* complete (an action line follows the name line) the answer is
\* (None, "Character name ... does not exist").
C1_UnknownSelectRejected ==
    JustParsed =>
        \A i \in 0..(Len(LinesOfOutput) - 1) :
            UnknownSelectAt(LinesOfOutput, i, characters) =>
                /\ parsed.parsed_data = None
                /\ i + 2 < Len(LinesOfOutput) =>
                     parsed = Result(None,
                                     DoesNotExist(Strip(At(LinesOfOutput, i + 1))))

\* A complete unknown select after an accepted create has been rejected.
C1_Witness ==
    /\ pc = "CorrectingFormat"
    /\ \E i \in 1..(Len(LinesOfOutput) - 1) :
        /\ UnknownSelectAt(LinesOfOutput, i, characters)
        /\ i + 2 < Len(LinesOfOutput)
        /\ CreatedBefore(LinesOfOutput, i, characters) # {}
        /\ parsed.error = DoesNotExist(Strip(At(LinesOfOutput, i + 1)))

\* C2: whenever the scan reaches a complete create command with a valid
\* gender whose name is in the cast or was created earlier in the input,
\* the answer is (None, "Character name ... already exists").
C2_DuplicateCreateRejected ==
    JustParsed =>
        \A i \in 0..(Len(LinesOfOutput) - 1) :
            ( /\ i + 3 < Len(LinesOfOutput)
              /\ ScanReaches(LinesOfOutput, i, characters)
              /\ match_command(At(LinesOfOutput, i), "Create character command")
              /\ Lower(Strip(At(LinesOfOutput, i + 2))) \in {"male", "female"}
              /\ Strip(At(LinesOfOutput, i + 1)) \in
                    DOMAIN characters \cup CreatedBefore(LinesOfOutput, i, characters) )
            => parsed = Result(None, AlreadyExists(Strip(At(LinesOfOutput, i + 1))))

\* A create whose name was created earlier in the same input, by a create
\* that was accepted, has been rejected.
C2_Witness ==
    /\ pc = "CorrectingFormat"
    /\ \E i \in 1..(Len(LinesOfOutput) - 1) :
        /\ i + 3 < Len(LinesOfOutput)
        /\ ScanReaches(LinesOfOutput, i, characters)
        /\ match_command(At(LinesOfOutput, i), "Create character command")
        /\ Strip(At(LinesOfOutput, i + 1)) \in CreatedBefore(LinesOfOutput, i, characters)
        /\ Strip(At(LinesOfOutput, i + 1)) \notin DOMAIN characters
        /\ parsed.error = AlreadyExists(Strip(At(LinesOfOutput, i + 1)))

\* The keyword and the number of lines of a command of the grammar.
KeywordOf(command) ==
    CASE command.kind = "CommandCreateCharacter" -> "Create character command"
      [] command.kind = "CommandSelectCharacter" -> "Select character command"
      [] command.kind = "CommandDataEnvironmentDescription" ->
            "Describe environment command"
      [] command.kind = "CommandOffTopic" -> "Off-topic input command"
      [] command.kind = "CommandPlayerDeath" -> "Player death command"

OperandsOf(command) ==
    CASE command.kind = "CommandCreateCharacter" ->
            <<command.name, command.gender, command.description>>
      [] command.kind = "CommandSelectCharacter" -> <<command.name, command.action>>
      [] command.kind = "CommandDataEnvironmentDescription" -> <<command.description>>
      [] OTHER -> <<>>

\* Where command number k of a list starts in the lines it was read from
\* (1-based), the commands lying one after the other from the first line.
RECURSIVE LineOf(_, _)
LineOf(commands, k) ==
    IF k = 1 THEN 1
    ELSE LineOf(commands, k - 1) + 1 + Len(OperandsOf(commands[k - 1]))

\* C3: a returned command list is non-empty, its commands are the line
\* groups of the input in input order (keyword line, then the operand
\* lines, stripped; the gender in lower case), covering all of it, and
\* against the cast as it is: a create has gender male or female and a name
\* neither in the cast nor created earlier in the list; a select names a
\* character of the cast or one created earlier in the list.
C3_AcceptedListIsValid ==
    (JustParsed /\ parsed.parsed_data # None) =>
        LET commands == parsed.parsed_data.value
            lines == LinesOfOutput
            n == Len(commands)
        IN /\ n > 0
           /\ LineOf(commands, n) + Len(OperandsOf(commands[n])) = Len(lines)
           /\ \A k \in 1..n :
                LET at == LineOf(commands, k)
                    command == commands[k]
                    operands == OperandsOf(command)
                    earlier == CreatedNames(SubSeq(commands, 1, k - 1))
                IN /\ match_command(lines[at], KeywordOf(command))
                   /\ \A j \in 1..Len(operands) :
                        operands[j] =
                            IF command.kind = "CommandCreateCharacter" /\ j = 2
                            THEN Lower(Strip(lines[at + j]))
                            ELSE Strip(lines[at + j])
                   /\ command.kind = "CommandCreateCharacter" =>
                        /\ command.gender \in {"male", "female"}
                        /\ command.name \notin DOMAIN characters
                        /\ command.name \notin earlier
                   /\ command.kind = "CommandSelectCharacter" =>
                        command.name \in DOMAIN characters \cup earlier

\* An accepted list of three commands that creates a character and then
\* selects it.
C3_Witness ==
    /\ pc = "ApplyingCommands"
    /\ Len(parsed.parsed_data.value) = 3
    /\ \E j, k \in 1..3 :
        /\ j < k
        /\ parsed.parsed_data.value[j].kind = "CommandCreateCharacter"
        /\ parsed.parsed_data.value[k].kind = "CommandSelectCharacter"
        /\ parsed.parsed_data.value[k].name = parsed.parsed_data.value[j].name
        /\ parsed.parsed_data.value[j].name \notin DOMAIN characters

(***************************************************************************)
(* Properties of command application, the correction loop and the turn.    *)
(***************************************************************************)
IndicesOfKind(commands, kind) ==
    { k \in 1..Len(commands) : commands[k].kind = kind }

First(S) == CHOOSE k \in S : \A j \in S : k <= j

\* The names a command list creates or selects.
TouchedNames(commands) ==
    { commands[k].name :
        k \in IndicesOfKind(commands, "CommandCreateCharacter")
              \cup IndicesOfKind(commands, "CommandSelectCharacter") }

\* C9: when parse_commands has met an OffTopic command, the summary is
\* exactly the sentinel 'Input is off-topic', whatever came before or comes
\* after it in the batch, and nothing after it was applied: the cast, the
\* persisted characters and the active names are those of the commands
\* before it.
C9_OffTopicOverridesAndStops ==
    ( /\ pc = "Rendering"
      /\ IndicesOfKind(parsed.parsed_data.value, "CommandOffTopic") # {} )
    => LET commands == parsed.parsed_data.value
           before == SubSeq(commands, 1,
                            First(IndicesOfKind(commands, "CommandOffTopic")) - 1)
       IN /\ final_output = "Input is off-topic"
          /\ final_output = off_topic_message_eng
          /\ DOMAIN characters = DOMAIN start.characters \cup CreatedNames(before)
          /\ Len(db.characters) = Len(start.db.characters)
                + Cardinality(IndicesOfKind(before, "CommandCreateCharacter"))
          /\ active_names = TouchedNames(before)

\* An OffTopic between two creates has been applied: the first character
\* is in the cast, the second is not.
C9_Witness ==
    /\ pc = "Rendering"
    /\ Len(parsed.parsed_data.value) = 3
    /\ parsed.parsed_data.value[1].kind = "CommandCreateCharacter"
    /\ parsed.parsed_data.value[2].kind = "CommandOffTopic"
    /\ parsed.parsed_data.value[3].kind = "CommandCreateCharacter"
    /\ parsed.parsed_data.value[1].name \in DOMAIN characters
    /\ parsed.parsed_data.value[3].name \notin DOMAIN characters
    /\ final_output = off_topic_message_eng

\* The generation calls and the renderer calls of the turn in flight (or
\* of the last turn), and whether it persisted anything.
TurnGmCalls == gm_calls - start.gm_calls
TurnActorCalls == actor_calls - start.actor_calls
TurnOver == pc = "AwaitingInput" /\ outcome # "none"
NoTurnRecord ==
    /\ db.user_messages = start.db.user_messages
    /\ db.master_messages = start.db.master_messages
NoRendererRecord == db.actor_messages = start.db.actor_messages
TurnRecordPersisted ==
    /\ Len(db.user_messages) = Len(start.db.user_messages) + 1
    /\ Len(db.master_messages) = Len(start.db.master_messages) + 1

\* C4: generate_instruction makes at most 4 generation calls in a turn,
\* one more than the failures counted; the turn ends with the fatal
\* 'Too many formatting errors' exactly when its 4th output failed
\* validation, and then no turn record and no renderer record is persisted.
C4_FourCallsThenFatal ==
    /\ TurnGmCalls <= 4
    /\ pc \in {"ValidatingFormat", "CorrectingFormat"} =>
         TurnGmCalls = cnt_errore + 1
    /\ outcome = "RuntimeError" =>
         /\ TurnGmCalls = 4
         /\ parsed.parsed_data = None
         /\ NoTurnRecord
         /\ NoRendererRecord
    /\ (TurnOver /\ parsed.parsed_data = None) =>
         (outcome = "RuntimeError" /\ TurnGmCalls = 4)

\* A turn has just ended with the fatal error after its 4th output failed.
C4_Witness ==
    /\ pc = "AwaitingInput"
    /\ outcome = "RuntimeError"
    /\ TurnGmCalls = 4
    /\ cnt_errore = 4

\* C5: between turns, the context a GameMaster constructed now from the
\* persisted records would hold equals the live GameMaster's context,
\* message for message.
C5_GameMasterReplayEqualsLive ==
    (constructed /\ pc = "AwaitingInput") =>
        GameMaster_init(db, language).messages = messages

\* C6: between turns, the context an Actor constructed now from the
\* persisted records would hold equals the live Actor's context, message
\* for message.
C6_ActorReplayEqualsLive ==
    (constructed /\ pc = "AwaitingInput") =>
        Actor_init(db, language).messages = actor_messages

TerminationSentence == "The player character has died. The session has ended."

\* C7: when the session end is signalled for a batch with a PlayerDeath,
\* the summary ends with the termination sentence, the renderer has been
\* invoked for the turn and the turn record is persisted.
C7_DeathSignalledAfterPersist ==
    outcome = "PlayerDeathException" =>
        /\ Len(final_output) >= Len(TerminationSentence)
        /\ SubSeq(final_output,
                  Len(final_output) - Len(TerminationSentence) + 1,
                  Len(final_output)) = TerminationSentence
        /\ TurnActorCalls = 1
        /\ TurnRecordPersisted

\* C8: once a PlayerDeath command has been applied, no step calls a
\* generation service or changes the persisted state.
C8_EndedIsAbsorbing ==
    [][ended => (gm_calls' = gm_calls /\ actor_calls' = actor_calls /\ db' = db)]_vars

\* C10: the sequence numbers of the turn records (user_messages and
\* master_messages) are 1..k in order, k the number of persisted turns.
C10_SequenceNumbersContiguous ==
    /\ Len(db.user_messages) = Len(db.master_messages)
    /\ \A k \in 1..Len(db.user_messages) :
         /\ db.user_messages[k].sequence_number = k
         /\ db.master_messages[k].sequence_number = k

\* Two turns are persisted, the second after at least one corrective
\* re-prompt in the session.
C10_Witness ==
    /\ Len(db.user_messages) = 2
    /\ db.user_messages[2].sequence_number = 2
    /\ gm_calls > 2

(***************************************************************************)
(* Character records.                                                      *)
(***************************************************************************)
PersistedNames == { db.characters[k].name : k \in 1..Len(db.characters) }

\* C11: in every reachable state no two persisted character records of the
\* session have the same name, and the GameMaster's character map holds
\* one description per name, all of them names of persisted records,
\* whatever turns, aborted turns and restarts came before.
C11_CharacterNamesUnique ==
    /\ \A i, j \in 1..Len(db.characters) :
          db.characters[i].name = db.characters[j].name => i = j
    /\ Cardinality(DOMAIN characters) <= Cardinality(PersistedNames)
    /\ DOMAIN characters \subseteq PersistedNames

\* A second turn asked to create a character that exists, was refused, and
\* then aborted on a player death after creating another character.
C11_Witness ==
    /\ Len(db.characters) = 2
    /\ outcome = "PlayerDeathException"
    /\ cnt_errore >= 1
    /\ Len(start.db.characters) = 1

(***************************************************************************)
(* The active-character set of a turn.                                     *)
(***************************************************************************)
\* The ids of the characters the turn that just returned touched.
TouchedIds ==
    { get_character_id(db, n).value :
        n \in { m \in active_names : get_character_id(db, m) # None } }

\* C12: when generate_answer has returned for turn n, reading the
\* active-character set under the sequence number n of the turn record just
\* written, as process_input does (current_sequence = len(user_messages)),
\* gives exactly the ids of the characters touched in turn n.
C12_ActiveSetKeyedByTurnNumber ==
    pc = "Returned" =>
        get_active_characters_ids(db, Len(db.user_messages)) = TouchedIds

(***************************************************************************)
(* The documented grammar as a serializer: the keyword line of a command   *)
(* followed by its operand lines.                                          *)
(***************************************************************************)
serialize_command(command) ==
    IF command.kind = "CommandCreateCharacter"
    THEN <<"Create character command", command.name, command.gender,
           command.description>>
    ELSE IF command.kind = "CommandSelectCharacter"
    THEN <<"Select character command", command.name, command.action>>
    ELSE IF command.kind = "CommandDataEnvironmentDescription"
    THEN <<"Describe environment command", command.description>>
    ELSE IF command.kind = "CommandOffTopic"
    THEN <<"Off-topic input command">>
    ELSE <<"Player death command">>

serialize(commands) ==
    Flatten([k \in 1..Len(commands) |-> serialize_command(commands[k])])

\* C13: for every output validate_and_parse accepts against a character
\* map, the returned commands written back in the grammar and parsed
\* against the same character map give a command list equal to the first.
C13_ParseRoundTrip ==
    (pc = "ApplyingCommands") =>
        validate_and_parse(serialize(parsed.parsed_data.value), characters)
            = Result(Some(parsed.parsed_data.value), "No errors found.")

\* An accepted output whose text is not its own serialization: other
\* spellings of the keywords, padded operands, a blank line, and a select
\* of the character created before it.
C13_Witness ==
    /\ pc = "ApplyingCommands"
    /\ output = <<"create character command.", " Bob ", "Female", "A smith.",
                  "  ", "SELECT CHARACTER COMMAND.", " Bob ", "waves.">>
    /\ serialize(parsed.parsed_data.value) # output
    /\ Len(parsed.parsed_data.value) = 2

(***************************************************************************)
(* Outputs without a non-blank line.                                       *)
(***************************************************************************)
NoNonBlankLine(input_text) ==
    \A k \in 1..Len(input_text) : Strip(input_text[k]) = ""

\* C14: validate_and_parse on an output that has no non-blank line (empty
\* or whitespace only) answers with the error "No commands found" and with
\* no other error.
C14_BlankOutputIsNoCommandsFound ==
    (JustParsed /\ NoNonBlankLine(output)) =>
        parsed = Result(None, "Error: No commands found.")

(***************************************************************************)
(* Aborted turns.                                                          *)
(***************************************************************************)
Aborted == outcome \in {"RuntimeError", "PlayerDeathException", "GenerationError"}

\* C15: when a turn has aborted after it started (the correction loop ran
\* out, the renderer failed, or a PlayerDeath command raised), the
\* session's persisted state is what it was when the turn began: no turn
\* record, renderer record, active-character set or character record of
\* the aborted turn remains.
C15_AbortedTurnLeavesNoTrace ==
    (pc = "AwaitingInput" /\ Aborted) => db = start.db

(***************************************************************************)
(* What the caller of the GameManager entry point sees.                    *)
(***************************************************************************)
\* C16: a fatal failure of a turn inside generate_answer reaches the caller
\* of the entry point (process_input or process_audio_input) as an
\* exception; the entry point never returns a (text, image, audio) response
\* for it.
C16_FatalFailureReachesCaller ==
    (pc = "AwaitingInput" /\ Aborted) => reply.kind = "raised"

(***************************************************************************)
(* The tagged renderer's retry loop.                                       *)
(***************************************************************************)
\* The generation calls of the call in progress: the user messages added
\* to the renderer's context after its two priming messages.
TaggedGenerationCalls ==
    Cardinality({ k \in 3..Len(actor_messages) : actor_messages[k].role = "user" })

\* The last prompt sent to the renderer's generator.
LastPromptSent == actor_messages[Len(actor_messages) - 1].content

ResponseIsInvalid ==
    ~validate_character_speech(tagged_response, active_characters).is_valid

\* C17: the tagged renderer, called with a summary that is not the
\* off-topic sentinel, makes at most 3 generation calls; once the 3rd
\* response has been found to name a bracketed speaker outside the roster
\* the call has raised its fatal error, it raises in no other case, and
\* then no renderer record has been persisted.
C17_ThreeAttemptsThenFatal ==
    final_output # off_topic_message_eng =>
        /\ TaggedGenerationCalls <= 3
        /\ (TaggedGenerationCalls = 3 /\ ResponseIsInvalid
              /\ pc # "TaggedValidating") => pc = "TaggedRaised"
        /\ pc = "TaggedRaised" =>
              /\ TaggedGenerationCalls = 3
              /\ ResponseIsInvalid
              /\ outcome = "ValueError"
              /\ db.actor_messages = <<>>

\* Three responses naming a speaker outside a non-empty roster.
C17_Witness ==
    /\ pc = "TaggedRaised"
    /\ TaggedGenerationCalls = 3
    /\ active_characters # <<>>
    /\ invalid_names = <<"Zed">>

\* C18: after a response failed the speaker validation, the prompt sent to
\* the generator on the next attempt contains the invalid speaker names
\* found in the failed response.
C18_RetryPromptNamesInvalidSpeakers ==
    (pc = "TaggedValidating" /\ retry_count >= 1) =>
        \A k \in 1..Len(invalid_names) : contains(LastPromptSent, invalid_names[k])

\* The speakers parse_text_to_speech attributes a segment of a text to.
SpeakersOf(text) ==
    LET parts == parse_text_to_speech(text)
    IN { parts[k][1] : k \in 1..Len(parts) }

\* C19: for every tagged response the tagged renderer accepts, every
\* speaker the syntactic split attributes a segment to, other than the
\* narrator "GM", is a name of the active roster.
C19_AcceptedSpeakersAreInRoster ==
    pc = "TaggedCleaning" =>
        SpeakersOf(tagged_response) \ {"GM"} \subseteq roster_names(active_characters)

(***************************************************************************)
(* The segmenter's result.                                                 *)
(***************************************************************************)
\* The fragments from number k on can be found in the text one after the
\* other, the first not before position from.
RECURSIVE LocatedInOrder(_, _, _, _)
LocatedInOrder(text, frags, k, from) ==
    IF k > Len(frags) THEN TRUE
    ELSE LET f == frags[k][2]
             hits == { i \in from..(Len(text) - Len(f)) : slice(text, i, i + Len(f)) = f }
         IN /\ hits # {}
            /\ LocatedInOrder(text, frags, k + 1,
                   (CHOOSE i \in hits : \A j \in hits : i <= j) + Len(f))

AlnumCount(text) ==
    Cardinality({ i \in 0..(Len(text) - 1) : isalnum(char_at(text, i)) })

RECURSIVE AlnumCountOfAll(_)
AlnumCountOfAll(frags) ==
    IF frags = <<>> THEN 0
    ELSE AlnumCount(frags[1][2]) + AlnumCountOfAll(Tail(frags))

\* C20: when process_text returns for an answer that passed validation,
\* the fragments are in strictly increasing source-offset order, every
\* validated quote is among them with its speaker, and no text between the
\* quotes is missing but punctuation and whitespace.
C20_FragmentsOrderedAndComplete ==
    pc = "SegmentReturned" =>
        /\ LocatedInOrder(source_text, segmenter_result, 1, 0)
        /\ \A k \in 1..Len(segments) :
              \E j \in 1..Len(segmenter_result) : segmenter_result[j] = segments[k]
        /\ AlnumCountOfAll(segmenter_result) = AlnumCount(source_text)

(***************************************************************************)
(* The segmenter's validation.                                             *)
(***************************************************************************)
\* _analyze_errors has just answered: errors is its answer for segments.
JustAnalyzed ==
    \/ pc = "SegmentOrdering"
    \/ pc \in {"SegmentCalled", "SegmentRaised"} /\ attempt > 0

SpeakerIsKnown(k) ==
    \E j \in 1..Len(db.characters) : db.characters[j].name = segments[k][1]

QuoteIsLiteralSubstring(k) == contains(source_text, segments[k][2])

\* C21: _analyze_errors returns no error only if every speaker is a known
\* character name of the session and every quote is a literal substring of
\* the source text; for a list with an unknown speaker and a quote that is
\* not literal, the report names both failure classes.
C21_AcceptedSegmentsAreKnownAndLiteral ==
    JustAnalyzed =>
        /\ errors = None =>
              \A k \in 1..Len(segments) :
                  SpeakerIsKnown(k) /\ QuoteIsLiteralSubstring(k)
        /\ ((\E k \in 1..Len(segments) : ~SpeakerIsKnown(k))
              /\ (\E k \in 1..Len(segments) : ~QuoteIsLiteralSubstring(k))) =>
              /\ errors # None
              /\ contains(errors.value, "Unknown speakers found at: ")
              /\ contains(errors.value, "not found in original text: ")

(***************************************************************************)
(* The segmenter's retry budget and its failure inside process_input.      *)
(***************************************************************************)
TurnRecords(d) ==
    [user_messages |-> d.user_messages, master_messages |-> d.master_messages,
     actor_messages |-> d.actor_messages,
     active_characters |-> d.active_characters, characters |-> d.characters]

SegmenterGenerationCalls == Len(segmenter_messages) \div 2

\* C22: process_text calls the generator at most 5 times and raises exactly
\* when the 5th answer is invalid too; the failure does not touch the
\* persisted turn record, and process_input then returns the turn's text
\* with no audio path.
C22_FiveAttemptsThenTextWithoutAudio ==
    /\ SegmenterGenerationCalls <= 5
    /\ pc = "SegmentRaised" =>
          SegmenterGenerationCalls = 5 /\ attempt = 5 /\ errors # None
    /\ (attempt = 5 /\ pc # "SegmentChecking") => outcome = "ValueError"
    /\ outcome = "ValueError" =>
          /\ pc \in {"SegmentRaised", "SegmentInputReturned"}
          /\ TurnRecords(db) = TurnRecords(start.db)
          /\ Len(db.user_messages) = 1
          /\ db.user_messages[1].response = source_text
    /\ (pc = "SegmentInputReturned" /\ outcome = "ValueError") =>
          reply = ReturnedWithAudio(source_text, None)

C22_Witness ==
    /\ pc = "SegmentInputReturned"
    /\ outcome = "ValueError"
    /\ SegmenterGenerationCalls = 5
    /\ reply = ReturnedWithAudio(source_text, None)

(***************************************************************************)
(* The renderer on the off-topic summary.                                  *)
(***************************************************************************)
\* C23: get_detailed_action called with the off-topic sentinel as summary
\* makes no generation call, appends exactly one renderer record (the
\* sentinel, the canned sentence) and returns the canned sentence of the
\* session language: the Russian one for a Russian session, the English
\* one otherwise.
C23_OffTopicRenderedWithoutGeneration ==
    [][(pc \in {"Rendering", "TaggedCalled"}
            /\ final_output = "Input is off-topic") =>
          /\ actor_messages' = actor_messages
          /\ db'.actor_messages =
                Append(db.actor_messages,
                       [sequence_number |-> Len(db.actor_messages) + 1,
                        master_prompt |-> "Input is off-topic",
                        actor_response |-> final_message'])
          /\ db' = [db EXCEPT !.actor_messages = db'.actor_messages]
          /\ final_message' = IF language = "Russian" THEN off_topic_message_ru
                              ELSE off_topic_message_eng
          /\ pc' \in {"Persisting", "TaggedReturned"}]_vars

C23_Witness ==
    /\ pc = "Persisting"
    /\ final_output = "Input is off-topic"
    /\ language = "Russian"
    /\ final_message = off_topic_message_ru
    /\ db.actor_messages # <<>>
    /\ db.actor_messages[Len(db.actor_messages)].master_prompt = "Input is off-topic"

(***************************************************************************)
(* The effects of a batch of commands.                                     *)
(***************************************************************************)
\* parse_commands has been called on the parsed commands of the turn.
CommandsApplied ==
    /\ pc \in {"Rendering", "AwaitingInput"}
    /\ parsed.parsed_data # None
    /\ outcome \in {"none", "PlayerDeathException"}

AppliedCommands == parsed.parsed_data.value

\* The k-th command is PlayerDeath and the loop reaches it.
DeathReachedAt(k) ==
    /\ k \in 1..Len(AppliedCommands)
    /\ AppliedCommands[k].kind = "CommandPlayerDeath"
    /\ \A j \in 1..(k - 1) :
          AppliedCommands[j].kind \notin {"CommandPlayerDeath", "CommandOffTopic"}

\* C24: PlayerDeath is the last effect of its batch: the character map, the
\* persisted characters, the summary and the active set are those of the
\* batch cut after the PlayerDeath command, and the call raises.
C24_NothingAppliedAfterPlayerDeath ==
    CommandsApplied =>
        \A k \in 1..Len(AppliedCommands) :
            DeathReachedAt(k) =>
                LET r == parse_commands(SubSeq(AppliedCommands, 1, k),
                                        start.characters, start.db)
                IN /\ outcome = "PlayerDeathException"
                   /\ characters = r.characters
                   /\ db = r.db
                   /\ final_output = r.final_output
                   /\ active_names = r.active_characters

C24_Witness ==
    /\ CommandsApplied
    /\ \E k \in 1..(Len(AppliedCommands) - 1) :
          /\ DeathReachedAt(k)
          /\ AppliedCommands[k + 1].kind = "CommandCreateCharacter"
          /\ AppliedCommands[k + 1].name \notin DOMAIN characters

\* C25: every name of the active set returned by parse_commands is a key of
\* the character map when the call returns, also when the batch was cut
\* short by OffTopic, so the active map built by generate_answer is defined
\* for every active name.
C25_ActiveNamesAreInCharacterMap ==
    CommandsApplied =>
        /\ active_names \subseteq DOMAIN characters
        /\ active_names =
              { AppliedCommands[k].name :
                  k \in { j \in 1..Len(AppliedCommands) :
                            /\ AppliedCommands[j].kind \in
                                 {"CommandCreateCharacter", "CommandSelectCharacter"}
                            /\ \A i \in 1..(j - 1) : ~ends_batch(AppliedCommands[i]) } }

C25_Witness ==
    /\ CommandsApplied
    /\ pc = "Rendering"
    /\ final_output = "Input is off-topic"
    /\ \E n \in active_names : n \notin DOMAIN start.characters
    /\ \E n \in active_names : n \in DOMAIN start.characters

(***************************************************************************)
(* The bootstrap records of a session.                                     *)
(***************************************************************************)
\* C26: the bootstrap priming is written once per session: after any number
\* of constructions, one after another, the persisted bootstrap streams
\* hold exactly the first construction's records, three of the game master
\* and one of the renderer.
C26_BootstrapPersistedOnce ==
    IF constructed
    THEN /\ db.game_master_prompts =
              << [prompt_type |-> "start", prompt_content |-> gm_start_message,
                  model_response |-> "Understood"],
                 [prompt_type |-> "world", prompt_content |-> world_prompt,
                  model_response |-> "Understood"],
                 [prompt_type |-> "character",
                  prompt_content |-> formatted_character,
                  model_response |-> "Understood"] >>
         /\ db.actor_prompts =
              << [prompt_content |-> formatted_start_message(language),
                  model_response |-> "Ready to narrate concisely"] >>
    ELSE db.game_master_prompts = <<>> /\ db.actor_prompts = <<>>

\* A GameMaster constructed after a persisted turn: not the first one.
C26_Witness ==
    /\ constructed
    /\ pc = "AwaitingInput"
    /\ db.user_messages # <<>>
    /\ message = ""
    /\ Len(messages) > 6
    /\ Len(db.game_master_prompts) = 3

(***************************************************************************)
(* The life of a character.                                                *)
(***************************************************************************)
\* C27: once a character exists its description never changes and the
\* character is never removed, in the persisted records and in the map of
\* the GameMaster, through turns and through reconstructions.
C27_CharactersAreImmutable ==
    [][/\ Len(db'.characters) >= Len(db.characters)
       /\ \A k \in 1..Len(db.characters) : db'.characters[k] = db.characters[k]
       \* no later record competes with the record of an existing name
       /\ \A k \in (Len(db.characters) + 1)..Len(db'.characters) :
             /\ db'.characters[k].name \notin PersistedNames
             /\ db'.characters[k].name \notin DOMAIN characters
       /\ \A n \in DOMAIN characters :
             n \in DOMAIN characters' /\ characters'[n] = characters[n]]_vars

\* A GameMaster rebuilt after a turn that created a character, with the
\* character in its map again.
C27_Witness ==
    /\ constructed
    /\ pc = "AwaitingInput"
    /\ message = ""
    /\ db.user_messages # <<>>
    /\ db.characters # <<>>
    /\ db.characters[1].name \in DOMAIN characters
    /\ characters[db.characters[1].name] = db.characters[1].description

(***************************************************************************)
(* Sessions in one database.                                               *)
(***************************************************************************)
NoRowsOf(s) == session_db(tables, s) = session_db(EmptyTables, s)

\* C28: constructing the GameManager (and with it the GameMaster and the
\* Actor) for a session id that has no session raises at once: no generator
\* message has been added and no record has been persisted for that id.
C28_UnknownSessionRaisesBeforeAnyEffect ==
    \A s \in SessionIds :
        (\A k \in 1..Len(tables.sessions) : tables.sessions[k].session_id # s) =>
            /\ ~instances[s].constructed
            /\ instances[s].messages = <<>>
            /\ instances[s].actor_messages = <<>>
            /\ instances[s].turns = 0
            /\ NoRowsOf(s)

C28_Witness ==
    /\ instances[3].error = "RuntimeError"
    /\ ~instances[3].constructed
    /\ instances[1].constructed
    /\ tables.user_messages # <<>>

ExpectedLine(c) ==
    IF c.kind = "CommandCreateCharacter"
    THEN "A new character appears: " \o c.name \o ". " \o c.description \o "\n"
    ELSE IF c.kind = "CommandSelectCharacter"
    THEN c.name \o ": " \o c.action \o "\n"
    ELSE "Environment: " \o c.description \o "\n"

RECURSIVE ExpectedSummary(_)
ExpectedSummary(cs) ==
    IF cs = <<>> THEN "" ELSE ExpectedLine(cs[1]) \o ExpectedSummary(Tail(cs))

PlainBatch ==
    \A k \in 1..Len(AppliedCommands) :
        AppliedCommands[k].kind \in
            {"CommandCreateCharacter", "CommandSelectCharacter",
             "CommandDataEnvironmentDescription"}

\* C30: for a batch without OffTopic and PlayerDeath parse_commands returns
\* as summary the lines of the commands in order, one line per command, each
\* ended by a newline, and as active set exactly the names created or
\* selected; a created character is in the map (and persisted) as soon as
\* its command has been applied, before the next one is.
C30_SummaryIsTheCommandsInOrder ==
    (CommandsApplied /\ PlainBatch) =>
        /\ outcome = "none"
        /\ final_output = ExpectedSummary(AppliedCommands)
        /\ active_names =
              { AppliedCommands[k].name :
                  k \in { j \in 1..Len(AppliedCommands) :
                            AppliedCommands[j].kind \in
                              {"CommandCreateCharacter", "CommandSelectCharacter"} } }
        /\ \A k \in 1..Len(AppliedCommands) :
              AppliedCommands[k].kind = "CommandCreateCharacter" =>
                  LET r == parse_commands(SubSeq(AppliedCommands, 1, k),
                                          start.characters, start.db)
                      c == AppliedCommands[k]
                  IN /\ c.name \in DOMAIN r.characters
                     /\ r.characters[c.name] = c.description
                     /\ r.db.characters # <<>>
                     /\ r.db.characters[Len(r.db.characters)].name = c.name
                     /\ c.name \in DOMAIN characters
                     /\ characters[c.name] = c.description

\* A batch of three kinds of command: a creation, a selection of the
\* character just created, a description of the environment.
C30_Witness ==
    /\ CommandsApplied
    /\ PlainBatch
    /\ Len(AppliedCommands) = 3
    /\ AppliedCommands[1].kind = "CommandCreateCharacter"
    /\ AppliedCommands[2].kind = "CommandSelectCharacter"
    /\ AppliedCommands[2].name = AppliedCommands[1].name
    /\ AppliedCommands[3].kind = "CommandDataEnvironmentDescription"
    /\ final_output = "A new character appears: Ada. A smith.\nAda: waves.\nEnvironment: waves.\n"

(***************************************************************************)
(* The tagged renderer on success.                                         *)
(***************************************************************************)
TaggedSucceeded == pc = "TaggedReturned" /\ final_output # "Input is off-topic"

\* C31: when the tagged renderer succeeds, the text returned is the response
\* with its markup stripped (the speech of every block and the narration,
\* joined by spaces), the renderer record persisted is the response as
\* generated, and it is the only record of the render and holds the response
\* of the accepted attempt, the last one generated.
C31_CleanedReturnedTaggedPersisted ==
    TaggedSucceeded =>
        /\ final_message = clean_character_speech(tagged_response)
        /\ tagged_response = "Ada nods. { [Ada]; \"Hi.\" }" =>
              final_message = "Ada nods. \"Hi.\""
        /\ tagged_response = "{ [Ada]; \"Hi.\" } and {  [Bob]; \"No.\" }" =>
              final_message = "\"Hi.\" and \"No.\""
        /\ tagged_response = "The smith waves." => final_message = tagged_response
        /\ db.actor_messages =
              Append(start.db.actor_messages,
                     [sequence_number |-> Len(start.db.actor_messages) + 1,
                      master_prompt |-> final_output,
                      actor_response |-> tagged_response])
        /\ ~ResponseIsInvalid
        /\ actor_messages[Len(actor_messages)] = Msg("assistant", tagged_response)

\* Accepted at the second attempt, with two tagged speeches.
C31_Witness ==
    /\ TaggedSucceeded
    /\ retry_count = 1
    /\ tagged_response = "{ [Ada]; \"Hi.\" } and {  [Bob]; \"No.\" }"
    /\ final_message = "\"Hi.\" and \"No.\""
    /\ db.actor_messages[1].actor_response = tagged_response

(***************************************************************************)
(* The segmenter's records and its replay.                                 *)
(***************************************************************************)
\* No attempt of process_text is between its generation and its record.
BetweenAttempts == pc # "SegmentChecking"

\* C32: every generation attempt of process_text, accepted or not, is
\* persisted as one prompt/response record, and the context a newly
\* constructed DialogueProcessor rebuilds from the records equals the live
\* processor's context in role, content and order.
C32_SegmenterReplayEqualsLiveContext ==
    BetweenAttempts =>
        /\ Len(db.dialogue_prompts) = SegmenterGenerationCalls
        /\ DialogueProcessor_load_prompts(db) = segmenter_messages
        /\ \A k \in 1..Len(db.dialogue_prompts) :
              /\ segmenter_messages[2 * k - 1] =
                    Msg("user", db.dialogue_prompts[k].prompt_content)
              /\ segmenter_messages[2 * k] =
                    Msg("assistant", db.dialogue_prompts[k].model_response)

\* Two rejected attempts and an accepted one, all three recorded.
C32_Witness ==
    /\ pc = "SegmentReturned"
    /\ attempt = 2
    /\ Len(db.dialogue_prompts) = 3
    /\ db.dialogue_prompts[1].model_response # db.dialogue_prompts[3].model_response
    /\ db.dialogue_prompts[2].prompt_content # db.dialogue_prompts[1].prompt_content

(***************************************************************************)
(* Truncated commands.                                                     *)
(***************************************************************************)
\* The keywords that take operand lines, with the number of lines and the
\* answer for a truncated command.
OperandKeywords ==
    { [command |-> "Create character command", operands |-> 3,
       error |-> "Error: Incomplete 'Create a character command.'"],
      [command |-> "Select character command", operands |-> 2,
       error |-> "Error: Incomplete 'Select character command.'"],
      [command |-> "Describe environment command", operands |-> 1,
       error |-> "Error: Incomplete 'The command to describe the environment.'"] }

\* The scan reaches keyword w at index i of lines.
KeywordReachedAt(lines, i, w, chars) ==
    /\ ScanReaches(lines, i, chars)
    /\ \/ Lower(Strip(At(lines, i))) = Lower(w.command)
       \/ Lower(Strip(At(lines, i))) = Lower(w.command \o ".")

\* The number of lines after index i.
LinesAfter(lines, i) == Len(lines) - (i + 1)

InvalidGender(gender) ==
    "Error: Invalid gender '" \o gender \o "'. Must be 'male' or 'female'."

\* C33: a keyword the scan reaches with fewer non-blank lines after it than
\* its operand count is answered with that keyword's "incomplete" error,
\* whatever those lines are; a complete create with a gender other than
\* male and female is answered with the gender error even when its name is
\* taken, and one with a valid gender and a taken name with "already
\* exists"; a complete select of an unknown name with "does not exist".
C33_TruncatedCommandIsIncomplete ==
    JustParsed =>
        \A i \in 0..(Len(LinesOfOutput) - 1) : \A w \in OperandKeywords :
            KeywordReachedAt(LinesOfOutput, i, w, characters) =>
                LET lines == LinesOfOutput
                    known == DOMAIN characters \cup CreatedBefore(lines, i, characters)
                IN
                /\ LinesAfter(lines, i) < w.operands =>
                      parsed = Result(None, w.error)
                /\ LinesAfter(lines, i) >= w.operands /\ w.operands = 3 =>
                      LET name == Strip(At(lines, i + 1))
                          gender == Lower(Strip(At(lines, i + 2)))
                      IN /\ gender \notin {"male", "female"} =>
                              parsed = Result(None, InvalidGender(gender))
                         /\ gender \in {"male", "female"} /\ name \in known =>
                              parsed = Result(None, AlreadyExists(name))
                /\ LinesAfter(lines, i) >= w.operands /\ w.operands = 2 =>
                      LET name == Strip(At(lines, i + 1))
                      IN name \notin known =>
                              parsed = Result(None, DoesNotExist(name))

\* A create with two lines after it, the second no gender, is incomplete.
C33_Witness ==
    /\ pc = "CorrectingFormat"
    /\ \E i \in 1..(Len(LinesOfOutput) - 1) :
        /\ match_command(At(LinesOfOutput, i), "Create character command")
        /\ ScanReaches(LinesOfOutput, i, characters)
        /\ LinesAfter(LinesOfOutput, i) = 2
        /\ Lower(Strip(At(LinesOfOutput, i + 2))) \notin {"male", "female"}
        /\ parsed.error = "Error: Incomplete 'Create a character command.'"

\* A complete create of a taken name with an invalid gender: the gender
\* error is the answer.
C33_WitnessGenderFirst ==
    /\ pc = "CorrectingFormat"
    /\ "Ada" \in DOMAIN characters
    /\ LinesOfOutput = <<"Create character command", "Ada", "robot", "A smith.">>
    /\ parsed.error = InvalidGender("robot")

(***************************************************************************)
(* Keyword recognition.                                                    *)
(***************************************************************************)
\* The five keywords in lower case, each with and without its period.
KeywordSpellings ==
    { "create character command", "create character command.",
      "select character command", "select character command.",
      "describe environment command", "describe environment command.",
      "off-topic input command", "off-topic input command.",
      "player death command", "player death command." }

Unrecognized(line) == "Error: Unrecognized command '" \o line \o "'"

\* The input without its blank lines.
WithoutBlankLines(input_text) ==
    SelectSeq(input_text, LAMBDA line : Strip(line) # "")

\* C34: a line the scan meets in keyword position is taken for a keyword
\* exactly when, trimmed and in lower case, it is one of the five keywords
\* with or without one trailing period; any other line there ends the
\* parse with the "unrecognized" error naming that line; and the answer is
\* the answer for the input without its blank lines.
C34_KeywordsAnyCaseOptionalPeriod ==
    JustParsed =>
        /\ \A i \in 0..(Len(LinesOfOutput) - 1) :
              ScanReaches(LinesOfOutput, i, characters) =>
                 LET line == Strip(At(LinesOfOutput, i)) IN
                 IF Lower(line) \in KeywordSpellings
                 THEN parsed.error # Unrecognized(line)
                 ELSE parsed = Result(None, Unrecognized(line))
        /\ parsed = validate_and_parse(WithoutBlankLines(output), characters)

\* An input with a blank line inside and a keyword in capitals with a
\* period has been accepted.
C34_Witness ==
    /\ pc = "ApplyingCommands"
    /\ \E k \in 2..(Len(output) - 1) : Strip(output[k]) = ""
    /\ \E k \in 1..Len(output) : output[k] = "SELECT CHARACTER COMMAND."
    /\ parsed.parsed_data # None

\* A keyword with text after it, met in keyword position after an accepted
\* command, has ended the parse.
C34_WitnessTrailingText ==
    /\ pc = "CorrectingFormat"
    /\ Len(LinesOfOutput) >= 2
    /\ ScanReaches(LinesOfOutput, Len(LinesOfOutput) - 1, characters)
    /\ parsed.error = Unrecognized("Player death command now")

(***************************************************************************)
(* Two turns of one session in flight.                                     *)
(***************************************************************************)
\* Two rows of one of the session's message tables carry one number.
SameSequenceNumberTwice ==
    \E table \in {"user_messages", "master_messages", "actor_messages"} :
        LET rows == where(tables[table], RequestSession)
        IN \E j, k \in 1..Len(rows) :
              j # k /\ rows[j].sequence_number = rows[k].sequence_number

\* Two character rows of the session carry one name.
SameNameTwice ==
    LET rows == where(tables.characters, RequestSession)
    IN \E j, k \in 1..Len(rows) : j # k /\ rows[j].name = rows[k].name

\* C35: turns of one session that overlap are unsafe: two turn records
\* with one sequence number, or two character records with one name, are
\* reachable (the witness); they arise only when the two requests were in
\* flight together, never when one returned before the other arrived.
C35_DuplicatesOnlyFromOverlappingTurns ==
    (pc = "Requests" /\ (SameSequenceNumberTwice \/ SameNameTwice)) =>
        \A r \in RequestIds : instances[r].concurrent

\* Both requests returned; two user messages are numbered alike and two
\* characters are named alike.
C35_Witness ==
    /\ pc = "Requests"
    /\ \A r \in RequestIds : instances[r].pc = "Done"
    /\ LET rows == where(tables.user_messages, RequestSession)
       IN Len(rows) = 2 /\ rows[1].sequence_number = rows[2].sequence_number
    /\ SameNameTwice

(***************************************************************************)
(* Termination of a turn.                                                  *)
(***************************************************************************)
\* generate_answer is running.
TurnInProgress ==
    pc \in {"ValidatingFormat", "CorrectingFormat", "ApplyingCommands",
            "Rendering", "Persisting"}

\* generate_answer has returned or raised.
TurnLeft == pc \in {"Returned", "AwaitingInput"}

\* C36: a turn makes at most four generation calls of the game master (the
\* first and three corrections) and at most one of the renderer, and a
\* turn in progress always comes to its end, returning or raising.
C36_TurnEndsWithinFourAndOneCalls ==
    /\ [](TurnGmCalls <= 4 /\ TurnActorCalls <= 1)
    /\ [](cnt_errore <= 4)
    /\ TurnInProgress ~> TurnLeft

\* A turn that used all four calls of the game master and was accepted at
\* the fourth has returned after its one renderer call.
C36_Witness ==
    /\ pc = "Returned"
    /\ TurnGmCalls = 4
    /\ TurnActorCalls = 1
    /\ final_output # off_topic_message_eng
    /\ outcome = "returned"

(***************************************************************************)
(* Validation has no effect.                                               *)
(***************************************************************************)
\* C37: the step of validate_and_parse, accepting or rejecting, leaves the
\* character map, every persisted table and the two contexts as they
\* were; the names of the map change only in the step of parse_commands
\* (or when a GameMaster is constructed from the records).
C37_ValidationChangesNothing ==
    [][/\ pc = "ValidatingFormat" =>
            /\ characters' = characters
            /\ db' = db
            /\ messages' = messages
            /\ actor_messages' = actor_messages
            /\ active_characters' = active_characters
       /\ characters' # characters =>
            pc \in {"ApplyingCommands", "AwaitingInput"}]_vars

\* An output that creates a character not in the map has been accepted,
\* after a rejected one in the same turn, and the map is the turn's first.
C37_Witness ==
    /\ pc = "ApplyingCommands"
    /\ cnt_errore >= 1
    /\ \E k \in 1..Len(parsed.parsed_data.value) :
          /\ parsed.parsed_data.value[k].kind = "CommandCreateCharacter"
          /\ parsed.parsed_data.value[k].name \notin DOMAIN characters
    /\ characters = start.characters
    /\ db = start.db

(***************************************************************************)
(* The three message streams are aligned.                                  *)
(***************************************************************************)
\* No call of generate_answer is running.
BetweenTurns == pc \in {"AwaitingInput", "Returned"}

\* C38: between turn attempts (after turns that returned, off-topic turns,
\* turns aborted by the correction cap and turns aborted by the player's
\* death, in any order) user_messages, master_messages and actor_messages
\* hold equally many records, and the k-th record of each is of one turn:
\* it has the number k, the user's input is the same in the user and the
\* master record, the response of the user record is the renderer's, the
\* master record holds that response as the actor's output, and the
\* renderer's record is of the off-topic summary exactly when the master
\* record's output is the off-topic command.
C38_StreamsAligned ==
    BetweenTurns =>
        /\ Len(db.user_messages) = Len(db.master_messages)
        /\ Len(db.user_messages) = Len(db.actor_messages)
        /\ \A k \in 1..Len(db.user_messages) :
              LET u == db.user_messages[k]
                  m == db.master_messages[k]
                  a == db.actor_messages[k]
              IN /\ u.sequence_number = k
                 /\ m.sequence_number = k
                 /\ a.sequence_number = k
                 /\ u.user_input = m.user_input
                 /\ u.response = a.actor_response
                 /\ m.actor_output =
                       "Actor's output (What the user will see):\n" \o a.actor_response
                 /\ (a.master_prompt = "Input is off-topic") <=>
                       (m.master_output = "Off-topic input command")

\* An off-topic turn was recorded and the next attempt was aborted by the
\* correction cap: one record in each stream.
C38_Witness ==
    /\ pc = "AwaitingInput"
    /\ turns = 2
    /\ outcome = "RuntimeError"
    /\ Len(db.user_messages) = 1
    /\ Len(db.actor_messages) = 1
    /\ db.actor_messages[1].master_prompt = "Input is off-topic"

\* A recorded turn followed by an attempt aborted by the player's death.
C38_WitnessDeath ==
    /\ pc = "AwaitingInput"
    /\ turns = 2
    /\ outcome = "PlayerDeathException"
    /\ Len(db.master_messages) = 1
    /\ Len(db.actor_messages) = 1

(***************************************************************************)
(* The character map and the character records.                            *)
(***************************************************************************)
\* C39: whenever a GameMaster exists (after its construction, after a
\* validation, after the commands were applied, after an aborted turn) its
\* character map has exactly the names of the persisted records and gives
\* each name the description of its record, so the map a restart loads is
\* the map the running GameMaster holds.
C39_MapEqualsPersistedCast ==
    constructed =>
        /\ DOMAIN characters = PersistedNames
        /\ \A k \in 1..Len(db.characters) :
              characters[db.characters[k].name] = db.characters[k].description
        /\ GameMaster_init(db, language).characters = characters

\* A turn created a character and was then aborted by the player's death:
\* the character is in the map and in the records.
C39_Witness ==
    /\ constructed
    /\ pc = "AwaitingInput"
    /\ outcome = "PlayerDeathException"
    /\ "Bob" \in DOMAIN characters
    /\ "Bob" \notin DOMAIN start.characters
    /\ "Bob" \in PersistedNames

(***************************************************************************)
(* The off-topic sentinel.                                                 *)
(***************************************************************************)
\* The batch holds an OffTopic command with no PlayerDeath before it.
OffTopicReached ==
    \E k \in 1..Len(AppliedCommands) :
        /\ AppliedCommands[k].kind = "CommandOffTopic"
        /\ \A j \in 1..(k - 1) : AppliedCommands[j].kind # "CommandPlayerDeath"

\* parse_commands returned (it did not raise).
CommandsReturned == CommandsApplied /\ pc = "Rendering"

\* C40: parse_commands returns the summary "Input is off-topic" exactly for
\* the batches that hold an OffTopic command with no PlayerDeath before it
\* (for every other batch it raises or returns another summary), and a
\* batch of create, select and describe commands only never gives it.
C40_SentinelIffOffTopicReached ==
    CommandsApplied =>
        /\ (CommandsReturned /\ final_output = "Input is off-topic")
              <=> OffTopicReached
        /\ PlainBatch => (CommandsReturned /\ final_output # "Input is off-topic")

\* OffTopic after a create and before a PlayerDeath: the sentinel is
\* returned, the lines before it are dropped.
C40_Witness ==
    /\ CommandsReturned
    /\ Len(AppliedCommands) = 3
    /\ AppliedCommands[1].kind = "CommandCreateCharacter"
    /\ AppliedCommands[2].kind = "CommandOffTopic"
    /\ AppliedCommands[3].kind = "CommandPlayerDeath"
    /\ final_output = "Input is off-topic"

\* PlayerDeath before OffTopic: the call raises, nothing is returned.
C40_WitnessDeathFirst ==
    /\ CommandsApplied
    /\ ~CommandsReturned
    /\ Len(AppliedCommands) = 2
    /\ AppliedCommands[1].kind = "CommandPlayerDeath"
    /\ AppliedCommands[2].kind = "CommandOffTopic"

====
